---------------------------- MODULE Spec2Model ----------------------------
(* ostree-prepare-root: main() of src/switchroot/ostree-prepare-root.c as a *)
(* state machine.  One action per statement group of main(); every system   *)
(* call the program makes is appended to `ops` with its result, every       *)
(* g_print diagnostic to `diag`.                                            *)
EXTENDS Integers, Sequences, FiniteSets, TLC

VARIABLES
  have_composefs,            \* build: HAVE_COMPOSEFS defined
  have_systemd_and_libmount, \* build: HAVE_SYSTEMD_AND_LIBMOUNT "defined" / "undefined";
                             \* "unread" until the run reaches the #ifdef
  pc,                        \* position in main()
  exit_status,               \* "running" | "EXIT_SUCCESS" | "EXIT_FAILURE"
  fail_msg,                  \* message of the err()/errx() that ended the run
  root_arg,                  \* argv[1]
  we_mounted_proc,
  root_mountpoint,
  deploy_path,
  ot_composefs,
  composefs_mode,
  composefs_digest,
  composefs_pubkey,
  sysroot_readonly,
  sysroot_currently_writable,
  using_composefs,
  metadata_builder,
  signatures,
  cfs_digest_v,
  sigs_examined,
  errno,                     \* errno left by a failed lcfs_mount_image
  ops,                       \* system / library calls made so far, in order
  diag,                      \* g_print lines so far, in order
  run_booted,                \* contents written to OTCORE_RUN_BOOTED, one per write
  phys_root_at,              \* where the physical root is mounted
  root_path_holds,           \* what is mounted at the root_mountpoint path
  boot_layout                \* << the /boot entries of the physical root and of the
                             \* deployment >>; empty until the run reaches the /boot step

vars == <<have_composefs, have_systemd_and_libmount, pc, exit_status, fail_msg,
          we_mounted_proc, root_mountpoint, deploy_path, ot_composefs,
          composefs_mode, composefs_digest, composefs_pubkey, sysroot_readonly,
          sysroot_currently_writable, using_composefs, metadata_builder,
          signatures, cfs_digest_v, sigs_examined, errno, ops, diag, run_booted,
          phys_root_at, root_path_holds, root_arg, boot_layout>>

build == <<have_composefs, have_systemd_and_libmount>>
policy == <<ot_composefs, composefs_mode, composefs_digest, composefs_pubkey>>
sysroot_cfg == <<sysroot_readonly, sysroot_currently_writable>>
commit_state == <<signatures, cfs_digest_v, sigs_examined>>
kernel == <<phys_root_at, root_path_holds, errno>>
resolved == <<we_mounted_proc, root_mountpoint, deploy_path>>
record_state == <<metadata_builder, run_booted>>

-----------------------------------------------------------------------------
(* Bounds of the model *)

\* longest list of detached signatures in the commit metadata
MaxSignatures == 2

-----------------------------------------------------------------------------
(* Program constants *)

OSTREE_COMPOSEFS_MODE_OFF == 0
OSTREE_COMPOSEFS_MODE_MAYBE == 1
OSTREE_COMPOSEFS_MODE_ON == 2
OSTREE_COMPOSEFS_MODE_SIGNED == 3
OSTREE_COMPOSEFS_MODE_DIGEST == 4

OSTREE_SHA256_DIGEST_LEN == 32
OSTREE_SHA256_STRING_LEN == 64

TMP_SYSROOT == "/sysroot.tmp"

\* a NULL char pointer / GVariant pointer; strings are sequences of
\* one-character strings, so no string equals it
NULL == <<"NULL">>

-----------------------------------------------------------------------------
(* Strings *)

S_off == <<"o", "f", "f">>
S_maybe == <<"m", "a", "y", "b", "e">>
S_on == <<"o", "n">>
S_signed_eq == <<"s", "i", "g", "n", "e", "d", "=">>
S_digest_eq == <<"d", "i", "g", "e", "s", "t", "=">>

\* strcmp (a, b) == 0
StrEq(a, b) == a = b

\* strncmp (s, prefix, strlen (prefix)) == 0
StrHasPrefix(s, prefix) ==
  /\ Len(s) >= Len(prefix)
  /\ SubSeq(s, 1, Len(prefix)) = prefix

\* s + strlen (prefix)
StrAfterPrefix(s, prefix) == SubSeq(s, Len(prefix) + 1, Len(s))

HexDigits == <<"0", "1", "2", "3", "4", "5", "6", "7",
               "8", "9", "a", "b", "c", "d", "e", "f">>

\* ot_bin2hex (out, inbuf, len): two lower-case hex digits per byte
ot_bin2hex(bytes) ==
  [i \in 1..(2 * Len(bytes)) |->
     LET b == bytes[(i + 1) \div 2]
     IN IF i % 2 = 1 THEN HexDigits[(b \div 16) + 1] ELSE HexDigits[(b % 16) + 1]]

-----------------------------------------------------------------------------
(* Inputs the environment can present *)

\* a byte string of n bytes, byte i being (seed + i * step) mod 256
Bytes(n, seed, step) == [i \in 1..n |-> (seed + i * step) % 256]

\* byte strings a commit can carry under OSTREE_COMPOSEFS_DIGEST_KEY_V0:
\* of the digest length, one short, one long, empty
EmbeddedDigests ==
  { Bytes(OSTREE_SHA256_DIGEST_LEN, 3, 37),
    Bytes(OSTREE_SHA256_DIGEST_LEN - 1, 3, 37),
    Bytes(OSTREE_SHA256_DIGEST_LEN + 1, 3, 37),
    <<>> }

\* values of digest=<...> on the kernel command line
CmdlineDigests ==
  { ot_bin2hex(Bytes(OSTREE_SHA256_DIGEST_LEN, 3, 37)),
    ot_bin2hex(Bytes(OSTREE_SHA256_DIGEST_LEN - 1, 3, 37)),
    <<>> }

PubkeyPaths == { <<"/", "k">> }

\* values of the ot-composefs key; NULL when the key is absent
CmdlineValues ==
  { NULL, S_off, S_maybe, S_on }
  \cup { S_signed_eq \o p : p \in PubkeyPaths }
  \cup { S_digest_eq \o d : d \in CmdlineDigests }
  \cup { <<>>, <<"o", "f">>, <<"o", "f", "f", "x">>, <<"O", "n">>,
         <<"s", "i", "g", "n", "e", "d">>, <<"y", "e", "s">> }

\* what otcore_validate_ed25519_signature reports for one signature:
\* "valid":   returns TRUE, *valid = true
\* "invalid": returns TRUE, *valid = false
\* "error":   returns FALSE with an error set
Verdicts == { "valid", "invalid", "error" }

SignatureLists == UNION { [1..n -> Verdicts] : n \in 0..MaxSignatures }

\* errno of a failed lcfs_mount_image
MountErrnos == { "ENOVERITY", "EWRONGVERITY", "ENOSIGNATURE", "EINVAL" }

-----------------------------------------------------------------------------
(* Bookkeeping of calls and exits *)

Op(call, src, tgt, flags, data, ok) ==
  [call |-> call, src |-> src, tgt |-> tgt, flags |-> flags, data |-> data, ok |-> ok]

Call(o) == ops' = Append(ops, o)

\* fall through to the next statement
Goto(label) ==
  /\ pc' = label
  /\ UNCHANGED <<exit_status, fail_msg>>

\* err (EXIT_FAILURE, msg) / errx (EXIT_FAILURE, msg)
Die(msg) ==
  /\ pc' = "exited"
  /\ exit_status' = "EXIT_FAILURE"
  /\ fail_msg' = msg

-----------------------------------------------------------------------------
Init ==
  /\ have_composefs \in BOOLEAN
  /\ have_systemd_and_libmount = "unread"
  /\ pc = "check_args"
  /\ exit_status = "running"
  /\ fail_msg = ""
  /\ we_mounted_proc = FALSE
  /\ root_mountpoint = ""
  /\ deploy_path = ""
  /\ ot_composefs = NULL
  /\ composefs_mode = OSTREE_COMPOSEFS_MODE_MAYBE
  /\ composefs_digest = NULL
  /\ composefs_pubkey = NULL
  /\ sysroot_readonly = FALSE
  /\ sysroot_currently_writable = FALSE
  /\ using_composefs = FALSE
  /\ metadata_builder = <<>>
  /\ signatures = NULL
  /\ cfs_digest_v = NULL
  /\ sigs_examined = 0
  /\ errno = ""
  /\ ops = <<>>
  /\ diag = <<>>
  /\ run_booted = <<>>
  /\ phys_root_at = "root_mountpoint"
  /\ root_path_holds = "physical"
  /\ root_arg = NULL
  /\ boot_layout = <<>>

-----------------------------------------------------------------------------
(* main(), lines 235-266: arguments, /proc, deployment resolution *)

\* values of argv[1]
RootArgs ==
  { <<"/">>,
    <<"/", ".">>,
    <<"/", "s", "y", "s", "r", "o", "o", "t">>,
    <<"/", "m", "n", "t">> }

\* the directories that exist in the initramfs
ExistingDirs == { "/", "/sysroot" }

\* the components of a path: the text between its slashes
RECURSIVE PathComponents(_, _, _)
PathComponents(path, i, cur) ==
  IF i > Len(path)
  THEN << cur >>
  ELSE IF path[i] = "/"
       THEN << cur >> \o PathComponents(path, i + 1, "")
       ELSE PathComponents(path, i + 1, cur \o path[i])

\* drop empty and "." components, resolve ".." against the part before it
RECURSIVE Canonical(_, _, _)
Canonical(comps, i, stack) ==
  IF i > Len(comps)
  THEN stack
  ELSE IF comps[i] \in { "", "." }
       THEN Canonical(comps, i + 1, stack)
       ELSE IF comps[i] = ".."
            THEN Canonical(comps, i + 1,
                           IF stack = <<>> THEN stack ELSE SubSeq(stack, 1, Len(stack) - 1))
            ELSE Canonical(comps, i + 1, Append(stack, comps[i]))

RECURSIVE JoinPath(_, _)
JoinPath(stack, i) ==
  IF i > Len(stack) THEN "" ELSE "/" \o stack[i] \o JoinPath(stack, i + 1)

\* realpath (path, NULL): the canonical absolute path, or NULL ("") when it
\* names nothing that exists
realpath(path) ==
  LET stack == Canonical(PathComponents(path, 1, ""), 1, <<>>)
      canon == IF stack = <<>> THEN "/" ELSE JoinPath(stack, 1)
  IN IF canon \in ExistingDirs THEN canon ELSE ""

\* if (argc < 2) err (...)
CheckArgs ==
  /\ pc = "check_args"
  /\ \/ \E arg \in RootArgs :
          Goto("stat_proc_cmdline") /\ root_arg' = arg
     \/ Die("usage: ostree-prepare-root SYSROOT") /\ UNCHANGED root_arg
  /\ UNCHANGED <<build, boot_layout, resolved, policy, sysroot_cfg, using_composefs,
                 commit_state, ops, diag, record_state, kernel>>

\* stat ("/proc/cmdline"); on ENOENT mount proc
StatProcCmdline ==
  /\ pc = "stat_proc_cmdline"
  /\ \E res \in { "ok", "ENOENT", "EACCES" }, mount_ok \in BOOLEAN :
       CASE res = "ok" ->
              /\ Goto("realpath_root")
              /\ UNCHANGED <<we_mounted_proc, ops>>
         [] res = "EACCES" ->
              /\ Die("stat(\"/proc/cmdline\") failed")
              /\ UNCHANGED <<we_mounted_proc, ops>>
         [] res = "ENOENT" ->
              /\ Call(Op("mount", "proc", "/proc", {"MS_SILENT"}, <<>>, mount_ok))
              /\ IF mount_ok
                 THEN Goto("realpath_root") /\ we_mounted_proc' = TRUE
                 ELSE Die("failed to mount proc on /proc") /\ UNCHANGED we_mounted_proc
  /\ UNCHANGED <<build, root_arg, boot_layout, root_mountpoint, deploy_path, policy, sysroot_cfg,
                 using_composefs, commit_state, diag, record_state, kernel>>

\* root_mountpoint = realpath (root_arg, NULL)
RealpathRoot ==
  /\ pc = "realpath_root"
  /\ LET r == realpath(root_arg)
     IN IF r = ""
        THEN Die("realpath(root_arg)") /\ UNCHANGED root_mountpoint
        ELSE Goto("resolve_deploy_path") /\ root_mountpoint' = r
  /\ UNCHANGED <<build, root_arg, boot_layout, we_mounted_proc, deploy_path, policy, sysroot_cfg,
                 using_composefs, commit_state, ops, diag, record_state, kernel>>

\* the fatal exits of resolve_deploy_path, in the order the code tests them
ResolveOutcomes ==
  { "no_target", "not_found", "not_symlink", "realpath_failed", "stat_failed", "ok" }

ResolveFailMsg(outcome) ==
  CASE outcome = "no_target" -> "No ostree= cmdline"
    [] outcome = "not_found" -> "Couldn't find specified OSTree root"
    [] outcome = "not_symlink" -> "OSTree target is not a symbolic link"
    [] outcome = "realpath_failed" -> "realpath(destpath) failed"
    [] outcome = "stat_failed" -> "stat(deploy_path) failed"

\* deploy_path = resolve_deploy_path (root_mountpoint)
ResolveDeployPath ==
  /\ pc = "resolve_deploy_path"
  /\ \E outcome \in ResolveOutcomes :
       IF outcome = "ok"
       THEN Goto("umount_proc") /\ deploy_path' = "deploy"
       ELSE Die(ResolveFailMsg(outcome)) /\ UNCHANGED deploy_path
  /\ UNCHANGED <<build, root_arg, boot_layout, we_mounted_proc, root_mountpoint, policy, sysroot_cfg,
                 using_composefs, commit_state, ops, diag, record_state, kernel>>

\* if (we_mounted_proc) umount ("/proc")
UmountProc ==
  /\ pc = "umount_proc"
  /\ IF we_mounted_proc
     THEN \E ok \in BOOLEAN :
            /\ Call(Op("umount", "", "/proc", {}, <<>>, ok))
            /\ IF ok THEN Goto("parse_composefs")
                     ELSE Die("failed to umount proc from /proc")
     ELSE Goto("parse_composefs") /\ UNCHANGED ops
  /\ UNCHANGED <<build, root_arg, boot_layout, resolved, policy, sysroot_cfg, using_composefs,
                 commit_state, diag, record_state, kernel>>

-----------------------------------------------------------------------------
(* main(), lines 268-299: the ot-composefs policy *)

\* ParseMode with "off" matched as a prefix
ParseMode_OffPrefix(v) ==
  IF v = NULL THEN OSTREE_COMPOSEFS_MODE_MAYBE
  ELSE IF StrHasPrefix(v, S_off) THEN OSTREE_COMPOSEFS_MODE_OFF
  ELSE IF StrEq(v, S_maybe) THEN OSTREE_COMPOSEFS_MODE_MAYBE
  ELSE IF StrEq(v, S_on) THEN OSTREE_COMPOSEFS_MODE_ON
  ELSE IF StrHasPrefix(v, S_signed_eq) THEN OSTREE_COMPOSEFS_MODE_SIGNED
  ELSE IF StrHasPrefix(v, S_digest_eq) THEN OSTREE_COMPOSEFS_MODE_DIGEST
  ELSE -1

\* the if / else-if chain over ot_composefs: the mode it selects, or
\* "unsupported" for the final else
ParseMode(v) ==
  IF v = NULL THEN OSTREE_COMPOSEFS_MODE_MAYBE
  ELSE IF StrEq(v, S_off) THEN OSTREE_COMPOSEFS_MODE_OFF
  ELSE IF StrEq(v, S_maybe) THEN OSTREE_COMPOSEFS_MODE_MAYBE
  ELSE IF StrEq(v, S_on) THEN OSTREE_COMPOSEFS_MODE_ON
  ELSE IF StrHasPrefix(v, S_signed_eq) THEN OSTREE_COMPOSEFS_MODE_SIGNED
  ELSE IF StrHasPrefix(v, S_digest_eq) THEN OSTREE_COMPOSEFS_MODE_DIGEST
  ELSE -1

ParsePubkey(v) ==
  IF v # NULL /\ ParseMode(v) = OSTREE_COMPOSEFS_MODE_SIGNED
  THEN StrAfterPrefix(v, S_signed_eq) ELSE NULL

ParseDigest(v) ==
  IF v # NULL /\ ParseMode(v) = OSTREE_COMPOSEFS_MODE_DIGEST
  THEN StrAfterPrefix(v, S_digest_eq) ELSE NULL

\* ot_composefs = read_proc_cmdline_key ("ot-composefs") and the chain
ParseComposefs ==
  /\ pc = "parse_composefs"
  /\ \E v \in CmdlineValues :
       /\ ot_composefs' = v
       /\ IF ParseMode(v) = -1
          THEN /\ Die("Unsupported ot-composefs option")
               /\ UNCHANGED <<composefs_mode, composefs_digest, composefs_pubkey>>
          ELSE /\ Goto("ifndef_composefs")
               /\ composefs_mode' = ParseMode(v)
               /\ composefs_pubkey' = ParsePubkey(v)
               /\ composefs_digest' = ParseDigest(v)
  /\ UNCHANGED <<build, root_arg, boot_layout, resolved, sysroot_cfg, using_composefs, commit_state,
                 ops, diag, record_state, kernel>>

\* #ifndef HAVE_COMPOSEFS: MAYBE becomes OFF
IfndefComposefs ==
  /\ pc = "ifndef_composefs"
  /\ composefs_mode' =
       IF ~have_composefs /\ composefs_mode = OSTREE_COMPOSEFS_MODE_MAYBE
       THEN OSTREE_COMPOSEFS_MODE_OFF ELSE composefs_mode
  /\ Goto("query_sysroot")
  /\ UNCHANGED <<build, root_arg, boot_layout, resolved, ot_composefs, composefs_digest, composefs_pubkey,
                 sysroot_cfg, using_composefs, commit_state, ops, diag,
                 record_state, kernel>>

-----------------------------------------------------------------------------
(* main(), lines 301-327: repository configuration, private /, staging dir *)

\* sysroot_readonly = sysroot_is_configured_ro (root_arg);
\* sysroot_currently_writable = !path_is_on_readonly_fs (root_arg)
QuerySysroot ==
  /\ pc = "query_sysroot"
  /\ \E ro \in BOOLEAN, writable \in BOOLEAN :
       /\ sysroot_readonly' = ro
       /\ sysroot_currently_writable' = writable
  /\ diag' = Append(diag, "sysroot.readonly configuration value")
  /\ Goto("make_root_private")
  /\ UNCHANGED <<build, root_arg, boot_layout, resolved, policy, using_composefs, commit_state, ops,
                 record_state, kernel>>

\* mount (NULL, "/", NULL, MS_REC | MS_PRIVATE | MS_SILENT, NULL)
MakeRootPrivate ==
  /\ pc = "make_root_private"
  /\ \E ok \in BOOLEAN :
       /\ Call(Op("mount", "", "/", {"MS_REC", "MS_PRIVATE", "MS_SILENT"}, <<>>, ok))
       /\ IF ok THEN Goto("mkdir_tmp_sysroot")
                ELSE Die("failed to make \"/\" private mount")
  /\ UNCHANGED <<build, root_arg, boot_layout, resolved, policy, sysroot_cfg, using_composefs,
                 commit_state, diag, record_state, kernel>>

\* MkdirTmpSysroot that tries again after a failure
MkdirTmpSysroot_Retry ==
  /\ pc = "mkdir_tmp_sysroot"
  /\ Len(ops) < 8
  /\ \E ok \in BOOLEAN :
       /\ Call(Op("mkdir", "", TMP_SYSROOT, {}, <<>>, ok))
       /\ IF ok THEN Goto("chdir_deploy")
                ELSE Goto("mkdir_tmp_sysroot")
  /\ UNCHANGED <<build, root_arg, boot_layout, resolved, policy, sysroot_cfg, using_composefs,
                 commit_state, diag, record_state, kernel>>

\* mkdir (TMP_SYSROOT, 0755)
MkdirTmpSysroot ==
  /\ pc = "mkdir_tmp_sysroot"
  /\ \E ok \in BOOLEAN :
       /\ Call(Op("mkdir", "", TMP_SYSROOT, {}, <<>>, ok))
       /\ IF ok THEN Goto("chdir_deploy")
                ELSE Die("couldn't create temporary sysroot")
  /\ UNCHANGED <<build, root_arg, boot_layout, resolved, policy, sysroot_cfg, using_composefs,
                 commit_state, diag, record_state, kernel>>

\* chdir (deploy_path); metadata_builder initialised; using_composefs = false
ChdirDeploy ==
  /\ pc = "chdir_deploy"
  /\ \E ok \in BOOLEAN :
       /\ Call(Op("chdir", "", deploy_path, {}, <<>>, ok))
       /\ IF ok THEN Goto("composefs_branch")
                ELSE Die("failed to chdir to deploy_path")
  /\ UNCHANGED <<build, root_arg, boot_layout, resolved, policy, sysroot_cfg, using_composefs,
                 commit_state, diag, record_state, kernel>>

-----------------------------------------------------------------------------
(* main(), lines 331-421: the composefs branch *)

\* if (composefs_mode != OFF): without HAVE_COMPOSEFS the branch is one err();
\* with it the SIGNED mode first verifies the commit
ComposefsBranch ==
  /\ pc = "composefs_branch"
  /\ IF composefs_mode = OSTREE_COMPOSEFS_MODE_OFF THEN Goto("base_root")
     ELSE IF ~have_composefs THEN Die("Composefs not supported")
     ELSE IF composefs_mode = OSTREE_COMPOSEFS_MODE_SIGNED THEN Goto("load_pubkey")
     ELSE Goto("mount_composefs")
  /\ UNCHANGED <<build, root_arg, boot_layout, resolved, policy, sysroot_cfg, using_composefs,
                 commit_state, ops, diag, record_state, kernel>>

\* g_file_get_contents (composefs_pubkey, &pubkey, &pubkey_size, &local_error)
LoadPubkey ==
  /\ pc = "load_pubkey"
  /\ \E ok \in BOOLEAN :
       /\ Call(Op("g_file_get_contents", "pubkey", "", {}, composefs_pubkey, ok))
       /\ IF ok THEN Goto("load_commit")
                ELSE Die("Failed to load public key")
  /\ UNCHANGED <<build, root_arg, boot_layout, resolved, policy, sysroot_cfg, using_composefs,
                 commit_state, diag, record_state, kernel>>

\* what load_commit_for_deploy can find in the object store
CommitStoreStates == { "ok", "commit_unreadable", "commitmeta_ENOENT", "commitmeta_EIO" }

\* the load_variant calls load_commit_for_deploy makes for a store state
LoadCommitCalls(store) ==
  IF store = "commit_unreadable"
  THEN << Op("load_variant", "commit", "", {}, <<>>, FALSE) >>
  ELSE << Op("load_variant", "commit", "", {}, <<>>, TRUE),
          Op("load_variant", "commitmeta", "", {}, <<>>, store = "ok") >>

\* the error load_commit_for_deploy sets when it returns FALSE
LoadCommitError(store) ==
  CASE store = "commit_unreadable" -> "g_file_get_contents: commit"
    [] store = "commitmeta_ENOENT" -> "No commitmeta for commit"
    [] store = "commitmeta_EIO" -> "g_file_get_contents: commitmeta"

\* load_commit_for_deploy (root_mountpoint, deploy_path, &commit, &commitmeta, ..)
LoadCommitForDeploy ==
  /\ pc = "load_commit"
  /\ \E store \in CommitStoreStates :
       /\ ops' = ops \o LoadCommitCalls(store)
       /\ IF store = "ok" THEN Goto("lookup_signatures")
          ELSE Die("Error loading signatures from repo: " \o LoadCommitError(store))
  /\ UNCHANGED <<build, root_arg, boot_layout, resolved, policy, sysroot_cfg, using_composefs,
                 commit_state, diag, record_state, kernel>>

\* signatures = g_variant_lookup_value (commitmeta, OSTREE_SIGN_METADATA_ED25519_KEY, "aay")
LookupSignatures ==
  /\ pc = "lookup_signatures"
  /\ \E sigs \in SignatureLists \cup { NULL } :
       /\ signatures' = sigs
       /\ Call(Op("g_variant_lookup_value", "commitmeta", "ostree.sign.ed25519", {},
                  <<>>, sigs # NULL))
       /\ IF sigs = NULL
          THEN Die("Signature validation requested, but no signatures in commit")
          ELSE Goto("validate_signature")
  /\ UNCHANGED <<build, root_arg, boot_layout, resolved, policy, sysroot_cfg, using_composefs,
                 cfs_digest_v, sigs_examined, diag, record_state, kernel>>

\* the loop of validate_signature from child i on: what it returns
\* ("TRUE" / "FALSE", or "errx" when the verifier reports an error and the
\* process exits) and how many signatures it handed to the verifier
RECURSIVE ValidateFrom(_, _)
ValidateFrom(sigs, i) ==
  IF i > Len(sigs) THEN [result |-> "FALSE", examined |-> Len(sigs)]
  ELSE IF sigs[i] = "error" THEN [result |-> "errx", examined |-> i]
  ELSE IF sigs[i] = "valid" THEN [result |-> "TRUE", examined |-> i]
  ELSE ValidateFrom(sigs, i + 1)

\* validate_signature that hands every signature to the verifier before
\* it looks at the verdicts
validate_signature_NoShortCircuit(sigs) ==
  IF \E k \in 1..Len(sigs) : sigs[k] = "error"
  THEN [result |-> "errx", examined |-> CHOOSE k \in 1..Len(sigs) : sigs[k] = "error"]
  ELSE IF \E k \in 1..Len(sigs) : sigs[k] = "valid"
  THEN [result |-> "TRUE", examined |-> Len(sigs)]
  ELSE [result |-> "FALSE", examined |-> Len(sigs)]

\* validate_signature that returns TRUE when no signature was found invalid
validate_signature_NoneInvalid(sigs) ==
  IF Len(sigs) = 0
  THEN [result |-> "TRUE", examined |-> 0]
  ELSE ValidateFrom(sigs, 1)

validate_signature(sigs) == ValidateFrom(sigs, 1)

\* if (!validate_signature (...)) errx (...); g_print; g_variant_builder_add
ValidateSignature ==
  /\ pc = "validate_signature"
  /\ LET v == validate_signature(signatures) IN
       /\ sigs_examined' = v.examined
       /\ Call(Op("validate_signature", "commit", "", {}, composefs_pubkey,
                  v.result = "TRUE"))
       /\ CASE v.result = "errx" ->
                 /\ Die("signature verification failed")
                 /\ UNCHANGED <<diag, metadata_builder>>
            [] v.result = "FALSE" ->
                 /\ Die("No valid signatures found for public key")
                 /\ UNCHANGED <<diag, metadata_builder>>
            [] v.result = "TRUE" ->
                 /\ Goto("extract_digest")
                 /\ diag' = Append(diag, "Validated commit signature")
                 /\ metadata_builder' =
                      Append(metadata_builder,
                             [key |-> "composefs.signed", val |-> composefs_pubkey])
  /\ UNCHANGED <<build, root_arg, boot_layout, resolved, policy, sysroot_cfg, using_composefs,
                 signatures, cfs_digest_v, run_booted, kernel>>

\* DigestRejected without the size test
DigestRejected_NoSizeTest(dv) == dv = NULL

\* cfs_digest_v == NULL || g_variant_get_size (cfs_digest_v) != OSTREE_SHA256_DIGEST_LEN
DigestRejected(dv) == dv = NULL \/ Len(dv) # OSTREE_SHA256_DIGEST_LEN

\* cfs_digest_v = g_variant_lookup_value (metadata, OSTREE_COMPOSEFS_DIGEST_KEY_V0, ..);
\* the size test; composefs_digest = ot_bin2hex (cfs_digest_v)
ExtractDigest ==
  /\ pc = "extract_digest"
  /\ \E dv \in EmbeddedDigests \cup { NULL } :
       /\ cfs_digest_v' = dv
       /\ Call(Op("g_variant_lookup_value", "commit", "ostree.composefs.digest.v0",
                  {}, <<>>, dv # NULL))
       /\ IF DigestRejected(dv)
          THEN /\ Die("Signature validation requested, but no valid digest in commit")
               /\ UNCHANGED composefs_digest
          ELSE /\ Goto("mount_composefs")
               /\ composefs_digest' = ot_bin2hex(dv)
  /\ UNCHANGED <<build, root_arg, boot_layout, resolved, ot_composefs, composefs_mode, composefs_pubkey,
                 sysroot_cfg, using_composefs, signatures, sigs_examined, diag,
                 record_state, kernel>>

\* CfsFlags that never asks for verity
CfsFlags_NoVerity(digest) == { "LCFS_MOUNT_FLAGS_READONLY" }

\* cfs_options.flags
CfsFlags(digest) ==
  { "LCFS_MOUNT_FLAGS_READONLY" }
  \cup (IF digest # NULL THEN { "LCFS_MOUNT_FLAGS_REQUIRE_VERITY" } ELSE {})

\* the g_print before lcfs_mount_image
CfsAnnounce(mode, digest) ==
  IF mode = OSTREE_COMPOSEFS_MODE_MAYBE THEN "Trying to mount composefs rootfs"
  ELSE IF digest # NULL THEN "Mounting composefs rootfs with expected digest"
  ELSE "Mounting composefs rootfs"

\* the g_print for a failed lcfs_mount_image
CfsFailureLine(e) ==
  IF e = "ENOVERITY" THEN "No verity in composefs image"
  ELSE IF e = "EWRONGVERITY" THEN "Wrong verity digest in composefs image"
  ELSE IF e = "ENOSIGNATURE" THEN "Missing signature in composefs image"
  ELSE "Mounting composefs image failed"

\* MountComposefs that records the composefs key with false when the mount fails
MountComposefs_RecordsFailure ==
  /\ pc = "mount_composefs"
  /\ \E res \in { "ok" } \cup MountErrnos :
       /\ Call(Op("lcfs_mount_image", ".ostree.cfs", TMP_SYSROOT,
                  CfsFlags(composefs_digest), composefs_digest, res = "ok"))
       /\ IF res = "ok"
          THEN /\ using_composefs' = TRUE
               /\ metadata_builder' =
                    Append(metadata_builder, [key |-> "composefs", val |-> <<"true">>])
               /\ diag' = Append(diag, CfsAnnounce(composefs_mode, composefs_digest))
               /\ UNCHANGED errno
          ELSE /\ errno' = res
               /\ metadata_builder' =
                    Append(metadata_builder, [key |-> "composefs", val |-> <<"false">>])
               /\ diag' = diag \o << CfsAnnounce(composefs_mode, composefs_digest),
                                     CfsFailureLine(res) >>
               /\ UNCHANGED using_composefs
  /\ Goto("base_root")
  /\ UNCHANGED <<build, root_arg, boot_layout, resolved, policy, sysroot_cfg, commit_state, run_booted,
                 phys_root_at, root_path_holds>>

\* lcfs_mount_image (OSTREE_COMPOSEFS_NAME, TMP_SYSROOT, &cfs_options) and
\* the branch on its result
MountComposefs ==
  /\ pc = "mount_composefs"
  /\ \E res \in { "ok" } \cup MountErrnos :
       /\ Call(Op("lcfs_mount_image", ".ostree.cfs", TMP_SYSROOT,
                  CfsFlags(composefs_digest), composefs_digest, res = "ok"))
       /\ IF res = "ok"
          THEN /\ using_composefs' = TRUE
               /\ metadata_builder' =
                    Append(metadata_builder, [key |-> "composefs", val |-> <<"true">>])
               /\ diag' = Append(diag, CfsAnnounce(composefs_mode, composefs_digest))
               /\ UNCHANGED errno
          ELSE /\ errno' = res
               /\ diag' = diag \o << CfsAnnounce(composefs_mode, composefs_digest),
                                     CfsFailureLine(res) >>
               /\ UNCHANGED <<using_composefs, metadata_builder>>
  /\ Goto("base_root")
  /\ UNCHANGED <<build, root_arg, boot_layout, resolved, policy, sysroot_cfg, commit_state, run_booted,
                 phys_root_at, root_path_holds>>

-----------------------------------------------------------------------------
(* main(), lines 423-447: base root fallback, read-only sysroot check *)

\* ComposefsRequired with >= for >
ComposefsRequired_FromMaybe(mode) == mode >= OSTREE_COMPOSEFS_MODE_MAYBE

\* ComposefsRequired with the threshold one mode too high
ComposefsRequired_AboveOn(mode) == mode > OSTREE_COMPOSEFS_MODE_ON

\* composefs_mode > OSTREE_COMPOSEFS_MODE_MAYBE
ComposefsRequired(mode) == mode > OSTREE_COMPOSEFS_MODE_MAYBE

\* if (!using_composefs) { fatal when required; else bind mount deploy_path }
BaseRoot ==
  /\ pc = "base_root"
  /\ IF using_composefs
     THEN /\ diag' = Append(diag, "Mounted composefs")
          /\ Goto("check_sysroot_writable")
          /\ UNCHANGED ops
     ELSE IF ComposefsRequired(composefs_mode)
     THEN /\ Die("Failed to mount composefs")
          /\ UNCHANGED <<ops, diag>>
     ELSE \E ok \in BOOLEAN :
          /\ Call(Op("mount", deploy_path, TMP_SYSROOT, {"MS_BIND", "MS_SILENT"}, <<>>, ok))
          /\ IF ok THEN Goto("check_sysroot_writable")
                   ELSE Die("failed to make initial bind mount")
          /\ UNCHANGED diag
  /\ UNCHANGED <<build, root_arg, boot_layout, resolved, policy, sysroot_cfg, using_composefs,
                 commit_state, record_state, kernel>>

\* CheckSysrootWritable without the test of sysroot_currently_writable
CheckSysrootWritable_NoTest ==
  /\ pc = "check_sysroot_writable"
  /\ Goto("prepare_boot")
  /\ metadata_builder' =
       Append(metadata_builder,
              [key |-> "sysroot-ro",
               val |-> IF sysroot_readonly THEN <<"true">> ELSE <<"false">>])
  /\ UNCHANGED <<build, root_arg, boot_layout, resolved, policy, sysroot_cfg, using_composefs,
                 commit_state, ops, diag, run_booted, kernel>>

\* if (sysroot_readonly && !sysroot_currently_writable) errx (...);
\* g_variant_builder_add (sysroot-ro)
CheckSysrootWritable ==
  /\ pc = "check_sysroot_writable"
  /\ IF sysroot_readonly /\ ~sysroot_currently_writable
     THEN /\ Die("sysroot.readonly=true requires root_arg to be writable at this point")
          /\ UNCHANGED metadata_builder
     ELSE /\ Goto("prepare_boot")
          /\ metadata_builder' =
               Append(metadata_builder,
                      [key |-> "sysroot-ro",
                       val |-> IF sysroot_readonly THEN <<"true">> ELSE <<"false">>])
  /\ UNCHANGED <<build, root_arg, boot_layout, resolved, policy, sysroot_cfg, using_composefs,
                 commit_state, ops, diag, run_booted, kernel>>

-----------------------------------------------------------------------------
(* main(), lines 449-543: /boot, /etc, /usr, /var under the staging mountpoint *)

\* MountStep with the result of mount(2) not tested
MountStep_Unchecked(here, next, o_src, o_tgt, o_flags, o_data, msg) ==
  /\ pc = here
  /\ \E ok \in BOOLEAN :
       /\ Call(Op("mount", o_src, o_tgt, o_flags, o_data, ok))
       /\ Goto(next)

\* one mount(2) at label `here`: on success go to `next`, else err (msg)
MountStep(here, next, o_src, o_tgt, o_flags, o_data, msg) ==
  /\ pc = here
  /\ \E ok \in BOOLEAN :
       /\ Call(Op("mount", o_src, o_tgt, o_flags, o_data, ok))
       /\ IF ok THEN Goto(next) ELSE Die(msg)

\* what lstat finds at <root_mountpoint>/boot/loader, at the deployment's
\* own boot/loader and at the deployment's boot; the deployment has a
\* boot/loader only inside a boot directory
BootLayouts ==
  { l \in [ root_loader_is_symlink : BOOLEAN,
            deploy_loader_is_symlink : BOOLEAN,
            boot_is_dir : BOOLEAN ] :
      l.deploy_loader_is_symlink => l.boot_is_dir }

\* PrepareBoot without the test of the deployment's boot directory
PrepareBoot_NoDirTest ==
  /\ pc = "prepare_boot"
  /\ \E layout \in BootLayouts :
       /\ boot_layout' = << layout >>
       /\ ops' = ops
            \o << Op("lstat", "", "root_mountpoint/boot/loader", {"S_ISLNK"}, <<>>,
                     layout.root_loader_is_symlink) >>
       /\ IF layout.root_loader_is_symlink
          THEN Goto("mount_boot") ELSE Goto("prepare_etc")
  /\ UNCHANGED <<build, root_arg, resolved, policy, sysroot_cfg, using_composefs,
                 commit_state, diag, record_state, kernel>>

\* lstat (root_mountpoint/boot/loader) is a symlink && lstat ("boot") is a directory
PrepareBoot ==
  /\ pc = "prepare_boot"
  /\ \E layout \in BootLayouts :
       /\ boot_layout' = << layout >>
       /\ ops' = ops
            \o << Op("lstat", "", "root_mountpoint/boot/loader", {"S_ISLNK"}, <<>>,
                     layout.root_loader_is_symlink) >>
            \o (IF layout.root_loader_is_symlink
                THEN << Op("lstat", "", "boot", {"S_ISDIR"}, <<>>, layout.boot_is_dir) >>
                ELSE <<>>)
       /\ IF layout.root_loader_is_symlink /\ layout.boot_is_dir
          THEN Goto("mount_boot") ELSE Goto("prepare_etc")
  /\ UNCHANGED <<build, root_arg, resolved, policy, sysroot_cfg, using_composefs,
                 commit_state, diag, record_state, kernel>>

\* mount (root_mountpoint/boot, TMP_SYSROOT "/boot", NULL, MS_BIND | MS_SILENT, NULL)
MountBoot ==
  /\ MountStep("mount_boot", "prepare_etc", "root_mountpoint/boot", "/sysroot.tmp/boot",
               {"MS_BIND", "MS_SILENT"}, <<>>, "failed to bind mount to boot")
  /\ UNCHANGED <<build, root_arg, boot_layout, resolved, policy, sysroot_cfg, using_composefs,
                 commit_state, diag, record_state, kernel>>

\* PrepareEtc that tests sysroot_readonly alone
PrepareEtc_OnlyReadonly ==
  /\ pc = "prepare_etc"
  /\ IF sysroot_readonly
     THEN Goto("etc_bind") ELSE Goto("prepare_usr")
  /\ UNCHANGED <<build, root_arg, boot_layout, resolved, policy, sysroot_cfg, using_composefs,
                 commit_state, ops, diag, record_state, kernel>>

\* if (sysroot_readonly || using_composefs)
PrepareEtc ==
  /\ pc = "prepare_etc"
  /\ IF sysroot_readonly \/ using_composefs
     THEN Goto("etc_bind") ELSE Goto("prepare_usr")
  /\ UNCHANGED <<build, root_arg, boot_layout, resolved, policy, sysroot_cfg, using_composefs,
                 commit_state, ops, diag, record_state, kernel>>

\* mount ("etc", TMP_SYSROOT "/etc", NULL, MS_BIND | MS_SILENT, NULL)
EtcBind ==
  /\ MountStep("etc_bind", "etc_remount", "etc", "/sysroot.tmp/etc",
               {"MS_BIND", "MS_SILENT"}, <<>>,
               "failed to prepare /etc bind-mount at /sysroot.tmp/etc")
  /\ UNCHANGED <<build, root_arg, boot_layout, resolved, policy, sysroot_cfg, using_composefs,
                 commit_state, diag, record_state, kernel>>

\* mount (TMP_SYSROOT "/etc", TMP_SYSROOT "/etc", NULL, MS_BIND | MS_REMOUNT | MS_SILENT, NULL)
EtcRemount ==
  /\ MountStep("etc_remount", "prepare_usr", "/sysroot.tmp/etc", "/sysroot.tmp/etc",
               {"MS_BIND", "MS_REMOUNT", "MS_SILENT"}, <<>>,
               "failed to make writable /etc bind-mount at /sysroot.tmp/etc")
  /\ UNCHANGED <<build, root_arg, boot_layout, resolved, policy, sysroot_cfg, using_composefs,
                 commit_state, diag, record_state, kernel>>

\* if (lstat (".usr-ovl-work") == 0) ... else if (!using_composefs) ...
PrepareUsr ==
  /\ pc = "prepare_usr"
  /\ \E marker \in BOOLEAN :
       /\ Call(Op("lstat", "", ".usr-ovl-work", {}, <<>>, marker))
       /\ IF marker THEN Goto("usr_check_rootfs")
          ELSE IF ~using_composefs THEN Goto("usr_bind")
          ELSE Goto("prepare_var")
  /\ UNCHANGED <<build, root_arg, boot_layout, resolved, policy, sysroot_cfg, using_composefs,
                 commit_state, diag, record_state, kernel>>

\* UsrCheckRootfs that never remounts the staging tree
UsrCheckRootfs_NeverRemount ==
  /\ pc = "usr_check_rootfs"
  /\ \E readonly \in BOOLEAN :
       /\ Call(Op("path_is_on_readonly_fs", "", TMP_SYSROOT, {}, <<>>, readonly))
       /\ Goto("usr_overlay")
  /\ UNCHANGED <<build, root_arg, boot_layout, resolved, policy, sysroot_cfg, using_composefs,
                 commit_state, diag, record_state, kernel>>

\* if (path_is_on_readonly_fs (TMP_SYSROOT))
UsrCheckRootfs ==
  /\ pc = "usr_check_rootfs"
  /\ \E readonly \in BOOLEAN :
       /\ Call(Op("path_is_on_readonly_fs", "", TMP_SYSROOT, {}, <<>>, readonly))
       /\ IF readonly THEN Goto("usr_remount_rootfs") ELSE Goto("usr_overlay")
  /\ UNCHANGED <<build, root_arg, boot_layout, resolved, policy, sysroot_cfg, using_composefs,
                 commit_state, diag, record_state, kernel>>

\* mount (TMP_SYSROOT, TMP_SYSROOT, NULL, MS_REMOUNT | MS_SILENT, NULL)
UsrRemountRootfs ==
  /\ MountStep("usr_remount_rootfs", "usr_overlay", TMP_SYSROOT, TMP_SYSROOT,
               {"MS_REMOUNT", "MS_SILENT"}, <<>>,
               "failed to remount rootfs writable (for overlayfs)")
  /\ UNCHANGED <<build, root_arg, boot_layout, resolved, policy, sysroot_cfg, using_composefs,
                 commit_state, diag, record_state, kernel>>

\* mount ("overlay", TMP_SYSROOT "/usr", "overlay", MS_SILENT, usr_ovl_options)
UsrOverlay ==
  /\ MountStep("usr_overlay", "prepare_var", "overlay", "/sysroot.tmp/usr",
               {"MS_SILENT"}, <<"o", "v", "l">>, "failed to mount /usr overlayfs")
  /\ UNCHANGED <<build, root_arg, boot_layout, resolved, policy, sysroot_cfg, using_composefs,
                 commit_state, diag, record_state, kernel>>

\* mount (TMP_SYSROOT "/usr", TMP_SYSROOT "/usr", NULL, MS_BIND | MS_SILENT, NULL)
UsrBind ==
  /\ MountStep("usr_bind", "usr_remount_ro", "/sysroot.tmp/usr", "/sysroot.tmp/usr",
               {"MS_BIND", "MS_SILENT"}, <<>>,
               "failed to bind mount (class:readonly) /usr")
  /\ UNCHANGED <<build, root_arg, boot_layout, resolved, policy, sysroot_cfg, using_composefs,
                 commit_state, diag, record_state, kernel>>

\* mount (.../usr, .../usr, NULL, MS_BIND | MS_REMOUNT | MS_RDONLY | MS_SILENT, NULL)
UsrRemountRo ==
  /\ MountStep("usr_remount_ro", "prepare_var", "/sysroot.tmp/usr", "/sysroot.tmp/usr",
               {"MS_BIND", "MS_REMOUNT", "MS_RDONLY", "MS_SILENT"}, <<>>,
               "failed to bind mount (class:readonly) /usr")
  /\ UNCHANGED <<build, root_arg, boot_layout, resolved, policy, sysroot_cfg, using_composefs,
                 commit_state, diag, record_state, kernel>>

\* PrepareVar that never takes the read-only branch
PrepareVar_NoSelfBind ==
  /\ pc = "prepare_var"
  /\ Goto("mount_var")
  /\ UNCHANGED <<build, root_arg, boot_layout, resolved, policy, sysroot_cfg, using_composefs,
                 commit_state, ops, diag, record_state, kernel>>

\* if (sysroot_readonly)
PrepareVar ==
  /\ pc = "prepare_var"
  /\ IF sysroot_readonly THEN Goto("var_bind") ELSE Goto("mount_var")
  /\ UNCHANGED <<build, root_arg, boot_layout, resolved, policy, sysroot_cfg, using_composefs,
                 commit_state, ops, diag, record_state, kernel>>

\* mount ("../../var", "../../var", NULL, MS_BIND | MS_SILENT, NULL)
VarBind ==
  /\ MountStep("var_bind", "var_remount", "../../var", "../../var",
               {"MS_BIND", "MS_SILENT"}, <<>>, "failed to prepare /var bind-mount")
  /\ UNCHANGED <<build, root_arg, boot_layout, resolved, policy, sysroot_cfg, using_composefs,
                 commit_state, diag, record_state, kernel>>

\* mount ("../../var", "../../var", NULL, MS_BIND | MS_REMOUNT | MS_SILENT, NULL)
VarRemount ==
  /\ MountStep("var_remount", "mount_var", "../../var", "../../var",
               {"MS_BIND", "MS_REMOUNT", "MS_SILENT"}, <<>>,
               "failed to make writable /var bind-mount")
  /\ UNCHANGED <<build, root_arg, boot_layout, resolved, policy, sysroot_cfg, using_composefs,
                 commit_state, diag, record_state, kernel>>

\* mount_var that is true only with the capability compiled in and no marker
mount_var_Inverted(systemd, marker) == ~ ((systemd = "undefined") \/ marker)

\* bool mount_var: false with HAVE_SYSTEMD_AND_LIBMOUNT, true without;
\* true when lstat (INITRAMFS_MOUNT_VAR) succeeds
mount_var(systemd, marker) == (systemd = "undefined") \/ marker

\* lstat (INITRAMFS_MOUNT_VAR); if (mount_var)
MountVar ==
  /\ pc = "mount_var"
  /\ \E systemd \in { "defined", "undefined" }, marker \in BOOLEAN :
       /\ have_systemd_and_libmount' = systemd
       /\ Call(Op("lstat", "", "INITRAMFS_MOUNT_VAR", {}, <<>>, marker))
       /\ IF mount_var(systemd, marker) THEN Goto("var_into_staging")
                                        ELSE Goto("write_run_booted")
  /\ UNCHANGED <<have_composefs, root_arg, boot_layout, resolved, policy, sysroot_cfg, using_composefs,
                 commit_state, diag, record_state, kernel>>

\* mount ("../../var", TMP_SYSROOT "/var", NULL, MS_BIND | MS_SILENT, NULL)
VarIntoStaging ==
  /\ MountStep("var_into_staging", "write_run_booted", "../../var", "/sysroot.tmp/var",
               {"MS_BIND", "MS_SILENT"}, <<>>, "failed to bind mount ../../var to var")
  /\ UNCHANGED <<build, root_arg, boot_layout, resolved, policy, sysroot_cfg, using_composefs,
                 commit_state, diag, record_state, kernel>>

-----------------------------------------------------------------------------
(* main(), lines 545-614: run-state record, root switch, exit *)

\* WriteRunBooted with the result of the write not tested
WriteRunBooted_Unchecked ==
  /\ pc = "write_run_booted"
  /\ \E ok \in BOOLEAN :
       /\ Call(Op("glnx_file_replace_contents_at", "", "OTCORE_RUN_BOOTED", {}, <<>>, ok))
       /\ Goto("chdir_tmp_sysroot")
       /\ IF ok THEN run_booted' = Append(run_booted, metadata_builder)
                ELSE UNCHANGED run_booted
  /\ UNCHANGED <<build, root_arg, boot_layout, resolved, policy, sysroot_cfg, using_composefs,
                 commit_state, diag, metadata_builder, kernel>>

\* glnx_file_replace_contents_at (AT_FDCWD, OTCORE_RUN_BOOTED, metadata ...)
WriteRunBooted ==
  /\ pc = "write_run_booted"
  /\ \E ok \in BOOLEAN :
       /\ Call(Op("glnx_file_replace_contents_at", "", "OTCORE_RUN_BOOTED", {}, <<>>, ok))
       /\ IF ok
          THEN Goto("chdir_tmp_sysroot") /\ run_booted' = Append(run_booted, metadata_builder)
          ELSE Die("Writing OTCORE_RUN_BOOTED") /\ UNCHANGED run_booted
  /\ UNCHANGED <<build, root_arg, boot_layout, resolved, policy, sysroot_cfg, using_composefs,
                 commit_state, diag, metadata_builder, kernel>>

\* chdir (TMP_SYSROOT)
ChdirTmpSysroot ==
  /\ pc = "chdir_tmp_sysroot"
  /\ \E ok \in BOOLEAN :
       /\ Call(Op("chdir", "", TMP_SYSROOT, {}, <<>>, ok))
       /\ IF ok THEN Goto("switch_root") ELSE Die("failed to chdir to /sysroot.tmp")
  /\ UNCHANGED <<build, root_arg, boot_layout, resolved, policy, sysroot_cfg, using_composefs,
                 commit_state, diag, record_state, kernel>>

\* strcmp (root_mountpoint, "/") == 0: pivot_root (".", "sysroot")
PivotRoot ==
  /\ pc = "switch_root"
  /\ root_mountpoint = "/"
  /\ \E ok \in BOOLEAN :
       /\ Call(Op("pivot_root", ".", "sysroot", {}, <<>>, ok))
       /\ IF ok
          THEN /\ Goto("sysroot_private")
               /\ phys_root_at' = "sysroot"
               /\ root_path_holds' = "staging"
          ELSE /\ Die("failed to pivot_root to deployment")
               /\ UNCHANGED <<phys_root_at, root_path_holds>>
  /\ UNCHANGED <<build, root_arg, boot_layout, resolved, policy, sysroot_cfg, using_composefs,
                 commit_state, diag, record_state, errno>>

\* MovePhysicalRoot taken whatever root_mountpoint is
MovePhysicalRoot_Always ==
  /\ pc = "switch_root"
  /\ \E ok \in BOOLEAN :
       /\ Call(Op("mount", root_mountpoint, "sysroot", {"MS_MOVE", "MS_SILENT"}, <<>>, ok))
       /\ IF ok
          THEN /\ Goto("move_staging")
               /\ phys_root_at' = "/sysroot.tmp/sysroot"
               /\ root_path_holds' = "nothing"
          ELSE /\ Die("failed to MS_MOVE root_mountpoint to 'sysroot'")
               /\ UNCHANGED <<phys_root_at, root_path_holds>>
  /\ UNCHANGED <<build, root_arg, boot_layout, resolved, policy, sysroot_cfg, using_composefs,
                 commit_state, diag, record_state, errno>>

\* else: mount (root_mountpoint, "sysroot", NULL, MS_MOVE | MS_SILENT, NULL)
MovePhysicalRoot ==
  /\ pc = "switch_root"
  /\ root_mountpoint # "/"
  /\ \E ok \in BOOLEAN :
       /\ Call(Op("mount", root_mountpoint, "sysroot", {"MS_MOVE", "MS_SILENT"}, <<>>, ok))
       /\ IF ok
          THEN /\ Goto("move_staging")
               /\ phys_root_at' = "/sysroot.tmp/sysroot"
               /\ root_path_holds' = "nothing"
          ELSE /\ Die("failed to MS_MOVE root_mountpoint to 'sysroot'")
               /\ UNCHANGED <<phys_root_at, root_path_holds>>
  /\ UNCHANGED <<build, root_arg, boot_layout, resolved, policy, sysroot_cfg, using_composefs,
                 commit_state, diag, record_state, errno>>

\* MoveStaging with the result of the second MS_MOVE not tested
MoveStaging_Unchecked ==
  /\ pc = "move_staging"
  /\ \E ok \in BOOLEAN :
       /\ Call(Op("mount", ".", root_mountpoint, {"MS_MOVE", "MS_SILENT"}, <<>>, ok))
       /\ Goto("chdir_root")
       /\ IF ok
          THEN phys_root_at' = "sysroot" /\ root_path_holds' = "staging"
          ELSE UNCHANGED <<phys_root_at, root_path_holds>>
  /\ UNCHANGED <<build, root_arg, boot_layout, resolved, policy, sysroot_cfg, using_composefs,
                 commit_state, diag, record_state, errno>>

\* mount (".", root_mountpoint, NULL, MS_MOVE | MS_SILENT, NULL)
MoveStaging ==
  /\ pc = "move_staging"
  /\ \E ok \in BOOLEAN :
       /\ Call(Op("mount", ".", root_mountpoint, {"MS_MOVE", "MS_SILENT"}, <<>>, ok))
       /\ IF ok
          THEN /\ Goto("chdir_root")
               /\ phys_root_at' = "sysroot"
               /\ root_path_holds' = "staging"
          ELSE /\ Die("failed to MS_MOVE . to root_mountpoint")
               /\ UNCHANGED <<phys_root_at, root_path_holds>>
  /\ UNCHANGED <<build, root_arg, boot_layout, resolved, policy, sysroot_cfg, using_composefs,
                 commit_state, diag, record_state, errno>>

\* chdir (root_mountpoint)
ChdirRoot ==
  /\ pc = "chdir_root"
  /\ \E ok \in BOOLEAN :
       /\ Call(Op("chdir", "", root_mountpoint, {}, <<>>, ok))
       /\ IF ok THEN Goto("rmdir_tmp_sysroot") ELSE Die("failed to chdir to root_mountpoint")
  /\ UNCHANGED <<build, root_arg, boot_layout, resolved, policy, sysroot_cfg, using_composefs,
                 commit_state, diag, record_state, kernel>>

\* RmdirTmpSysroot that never goes on to the read-only remount
RmdirTmpSysroot_NoRemount ==
  /\ pc = "rmdir_tmp_sysroot"
  /\ \E ok \in BOOLEAN :
       /\ Call(Op("rmdir", "", TMP_SYSROOT, {}, <<>>, ok))
       /\ IF ~ok THEN Die("couldn't remove temporary sysroot")
          ELSE Goto("sysroot_private")
  /\ UNCHANGED <<build, root_arg, boot_layout, resolved, policy, sysroot_cfg, using_composefs,
                 commit_state, diag, record_state, kernel>>

\* rmdir (TMP_SYSROOT); if (sysroot_readonly)
RmdirTmpSysroot ==
  /\ pc = "rmdir_tmp_sysroot"
  /\ \E ok \in BOOLEAN :
       /\ Call(Op("rmdir", "", TMP_SYSROOT, {}, <<>>, ok))
       /\ IF ~ok THEN Die("couldn't remove temporary sysroot")
          ELSE IF sysroot_readonly THEN Goto("sysroot_remount_ro")
          ELSE Goto("sysroot_private")
  /\ UNCHANGED <<build, root_arg, boot_layout, resolved, policy, sysroot_cfg, using_composefs,
                 commit_state, diag, record_state, kernel>>

\* mount ("sysroot", "sysroot", NULL, MS_BIND | MS_REMOUNT | MS_RDONLY | MS_SILENT, NULL)
SysrootRemountRo ==
  /\ MountStep("sysroot_remount_ro", "sysroot_private", "sysroot", "sysroot",
               {"MS_BIND", "MS_REMOUNT", "MS_RDONLY", "MS_SILENT"}, <<>>,
               "failed to make /sysroot read-only")
  /\ UNCHANGED <<build, root_arg, boot_layout, resolved, policy, sysroot_cfg, using_composefs,
                 commit_state, diag, record_state, kernel>>

\* mount ("none", "sysroot", NULL, MS_PRIVATE | MS_SILENT, NULL); exit (EXIT_SUCCESS)
SysrootPrivate ==
  /\ pc = "sysroot_private"
  /\ \E ok \in BOOLEAN :
       /\ Call(Op("mount", "none", "sysroot", {"MS_PRIVATE", "MS_SILENT"}, <<>>, ok))
       /\ IF ok
          THEN /\ pc' = "exited"
               /\ exit_status' = "EXIT_SUCCESS"
               /\ UNCHANGED fail_msg
          ELSE Die("remounting 'sysroot' private")
  /\ UNCHANGED <<build, root_arg, boot_layout, resolved, policy, sysroot_cfg, using_composefs,
                 commit_state, diag, record_state, kernel>>

Next ==
  \/ CheckArgs
  \/ StatProcCmdline
  \/ RealpathRoot
  \/ ResolveDeployPath
  \/ UmountProc
  \/ ParseComposefs
  \/ IfndefComposefs
  \/ QuerySysroot
  \/ MakeRootPrivate
  \/ MkdirTmpSysroot
  \/ ChdirDeploy
  \/ ComposefsBranch
  \/ LoadPubkey
  \/ LoadCommitForDeploy
  \/ LookupSignatures
  \/ ValidateSignature
  \/ ExtractDigest
  \/ MountComposefs
  \/ BaseRoot
  \/ CheckSysrootWritable
  \/ PrepareBoot
  \/ MountBoot
  \/ PrepareEtc
  \/ EtcBind
  \/ EtcRemount
  \/ PrepareUsr
  \/ UsrCheckRootfs
  \/ UsrRemountRootfs
  \/ UsrOverlay
  \/ UsrBind
  \/ UsrRemountRo
  \/ PrepareVar
  \/ VarBind
  \/ VarRemount
  \/ MountVar
  \/ VarIntoStaging
  \/ WriteRunBooted
  \/ ChdirTmpSysroot
  \/ PivotRoot
  \/ MovePhysicalRoot
  \/ MoveStaging
  \/ ChdirRoot
  \/ RmdirTmpSysroot
  \/ SysrootRemountRo
  \/ SysrootPrivate

Spec == Init /\ [][Next]_vars

-----------------------------------------------------------------------------
(* Vocabulary of the properties *)

\* the inverse of ot_bin2hex: the value of a hex digit, the bytes of a hex string
HexValue ==
  [c \in { HexDigits[k] : k \in 1..16 } |-> (CHOOSE k \in 1..16 : HexDigits[k] = c) - 1]
FromHex(h) == [i \in 1..(Len(h) \div 2) |-> 16 * HexValue[h[2 * i - 1]] + HexValue[h[2 * i]]]

Calls == 1..Len(ops)

IsSwitchOp(o) ==
  \/ o.call = "pivot_root"
  \/ o.call = "mount" /\ "MS_MOVE" \in o.flags

IsCfsMount(o) == o.call = "lcfs_mount_image"

\* the bind mount of the deployment directory onto the staging mountpoint
IsBaseBind(o) ==
  /\ o.call = "mount"
  /\ o.src = "deploy"
  /\ o.tgt = "/sysroot.tmp"
  /\ o.flags = {"MS_BIND", "MS_SILENT"}

IsMountOp(o) == o.call \in { "mount", "lcfs_mount_image", "pivot_root" }

StagingTargets ==
  { "/sysroot.tmp", "/sysroot.tmp/boot", "/sysroot.tmp/etc", "/sysroot.tmp/usr",
    "/sysroot.tmp/var" }

\* a mount made on the staging mountpoint or below it (or on the stateroot /var)
IsStagingMount(o) ==
  /\ o.call \in { "mount", "lcfs_mount_image" }
  /\ ~ IsSwitchOp(o)
  /\ o.tgt \in StagingTargets \cup { "../../var" }

\* call i is a successful `call` on `tgt` carrying at least the flags `f`
Did(i, call, tgt, f) ==
  /\ ops[i].call = call
  /\ ops[i].tgt = tgt
  /\ f \subseteq ops[i].flags
  /\ ops[i].ok

DidBefore(i, call, tgt, f) == \E j \in 1..(i - 1) : Did(j, call, tgt, f)

\* call `call` on `tgt` was made before call i, whatever it returned
AskedBefore(i, call, tgt) ==
  \E j \in 1..(i - 1) : ops[j].call = call /\ ops[j].tgt = tgt

\* a failed call that the program treats as fatal: every failed mount except
\* the composefs mount under MAYBE
IsFatalFailure(o) ==
  /\ ~ o.ok
  /\ IsMountOp(o)
  /\ ~ (IsCfsMount(o) /\ composefs_mode = OSTREE_COMPOSEFS_MODE_MAYBE)

Exited == pc = "exited"
Failed == pc = "exited" /\ exit_status = "EXIT_FAILURE"

-----------------------------------------------------------------------------
(* C1 *)

\* the base root, /boot, /etc, /usr and /var steps are complete before call i
StagingCompleteBefore(i) ==
  /\ \A j \in 1..(i - 1) : ~ IsFatalFailure(ops[j])
  /\ \/ DidBefore(i, "lcfs_mount_image", "/sysroot.tmp", {})
     \/ \E j \in 1..(i - 1) : IsBaseBind(ops[j]) /\ ops[j].ok
  /\ AskedBefore(i, "lstat", "root_mountpoint/boot/loader")
  /\ (\E j \in 1..(i - 1) : ops[j].call = "lstat" /\ ops[j].tgt = "boot" /\ ops[j].ok)
       => DidBefore(i, "mount", "/sysroot.tmp/boot", {"MS_BIND"})
  /\ (sysroot_readonly \/ using_composefs)
       => /\ DidBefore(i, "mount", "/sysroot.tmp/etc", {"MS_BIND"})
          /\ DidBefore(i, "mount", "/sysroot.tmp/etc", {"MS_BIND", "MS_REMOUNT"})
  /\ AskedBefore(i, "lstat", ".usr-ovl-work")
  /\ \/ DidBefore(i, "mount", "/sysroot.tmp/usr", {"MS_BIND", "MS_REMOUNT", "MS_RDONLY"})
     \/ \E j \in 1..(i - 1) : Did(j, "mount", "/sysroot.tmp/usr", {}) /\ ops[j].src = "overlay"
     \/ using_composefs
  /\ sysroot_readonly => DidBefore(i, "mount", "../../var", {"MS_BIND", "MS_REMOUNT"})
  /\ AskedBefore(i, "lstat", "INITRAMFS_MOUNT_VAR")
  /\ (\E j \in 1..(i - 1) : ops[j].call = "lstat" /\ ops[j].tgt = "INITRAMFS_MOUNT_VAR"
                            /\ mount_var(have_systemd_and_libmount, ops[j].ok))
       => DidBefore(i, "mount", "/sysroot.tmp/var", {"MS_BIND"})

\* C1: a root-switch operation (pivot_root, or an MS_MOVE mount) is attempted
\* only after the base-root, /boot, /etc, /usr and /var steps have all
\* completed without a fatal error; after a fatal failure of any call no
\* further call is made, so no switch is performed and the staging tree is
\* never at the root path.
C1_SwitchOnlyAfterStaging ==
  /\ \A i \in Calls : IsSwitchOp(ops[i]) => StagingCompleteBefore(i)
  /\ \A i \in Calls : IsFatalFailure(ops[i]) => i = Len(ops)
  /\ root_path_holds = "staging" => \E i \in Calls : IsSwitchOp(ops[i]) /\ ops[i].ok
  /\ (\E i \in Calls : IsFatalFailure(ops[i]) /\ IsStagingMount(ops[i]))
       => /\ \A j \in Calls : ~ IsSwitchOp(ops[j])
          /\ root_path_holds = "physical"
          /\ phys_root_at = "root_mountpoint"

\* a switch has been performed on a staging tree with /boot, /etc, /usr, /var mounts
C1_Witness ==
  /\ root_path_holds = "staging"
  /\ \E i \in Calls : Did(i, "mount", "/sysroot.tmp/boot", {"MS_BIND"})
  /\ \E i \in Calls : Did(i, "mount", "/sysroot.tmp/etc", {"MS_REMOUNT"})
  /\ \E i \in Calls : Did(i, "mount", "/sysroot.tmp/usr", {"MS_RDONLY"})
  /\ \E i \in Calls : Did(i, "mount", "/sysroot.tmp/var", {"MS_BIND"})

-----------------------------------------------------------------------------
(* C2 *)

\* the physical root has left its original path and the staging tree is not
\* (yet) the root at that path
HalfSwitched == phys_root_at # "root_mountpoint" /\ root_path_holds # "staging"

\* C2 as stated: the switch is one atomic namespace operation in both
\* topologies, so no reachable state (exits included) is half switched.
C2_AtomicInBothTopologies == ~ HalfSwitched

\* C2 amended: with root_mountpoint = "/" the switch is the single pivot_root
\* and no state is half switched; with any other root_mountpoint the switch is
\* two MS_MOVE mounts, and the half-switched state is exactly the one after
\* the first move succeeded and before the second has succeeded, which is
\* also the final state of a run whose second move fails.
C2_AtomicOnlyForPivot ==
  HalfSwitched =>
    /\ root_mountpoint # "/"
    /\ phys_root_at = "/sysroot.tmp/sysroot"
    /\ root_path_holds = "nothing"
    /\ \/ pc = "move_staging"
       \/ Failed /\ fail_msg = "failed to MS_MOVE . to root_mountpoint"
    /\ \A i \in Calls : ops[i].call # "pivot_root"

\* a run has exited non-zero half switched
C2_Witness == HalfSwitched /\ Failed

-----------------------------------------------------------------------------
(* C3 *)

\* C3: under MAYBE, whatever errno a failed lcfs_mount_image leaves, the run
\* does not end there: the program goes on to the base-root step, the next
\* call it makes is the bind mount of the deployment directory onto the
\* staging mountpoint, and the errno decides only the diagnostic line.
C3_MaybeFallsBackToBind ==
  \A i \in Calls :
    (IsCfsMount(ops[i]) /\ ~ ops[i].ok /\ composefs_mode = OSTREE_COMPOSEFS_MODE_MAYBE)
      => /\ errno \in MountErrnos
         /\ diag[Len(diag)] = CfsFailureLine(errno) \/ Len(ops) > i
         /\ fail_msg # "Failed to mount composefs"
         /\ IF Len(ops) = i
            THEN pc = "base_root" /\ exit_status = "running"
            ELSE IsBaseBind(ops[i + 1])

\* under MAYBE the composefs mount failed on a verity mismatch and the
\* deployment directory was then bind mounted
C3_Witness ==
  /\ composefs_mode = OSTREE_COMPOSEFS_MODE_MAYBE
  /\ errno = "EWRONGVERITY"
  /\ \E i \in Calls : IsCfsMount(ops[i]) /\ ~ ops[i].ok
                      /\ Len(ops) > i /\ IsBaseBind(ops[i + 1]) /\ ops[i + 1].ok

-----------------------------------------------------------------------------
(* C4 *)

\* C4: under ON, SIGNED and DIGEST lcfs_mount_image is called at most once;
\* when it fails it is the last call of the run, which then exits non-zero;
\* and the deployment directory is never bind mounted onto the staging
\* mountpoint.
C4_RequiredNeverFallsBack ==
  composefs_mode \in { OSTREE_COMPOSEFS_MODE_ON, OSTREE_COMPOSEFS_MODE_SIGNED,
                       OSTREE_COMPOSEFS_MODE_DIGEST } =>
    /\ Cardinality({ i \in Calls : IsCfsMount(ops[i]) }) <= 1
    /\ \A i \in Calls :
         (IsCfsMount(ops[i]) /\ ~ ops[i].ok)
           => /\ i = Len(ops)
              /\ \/ pc = "base_root" /\ exit_status = "running"
                 \/ Failed /\ fail_msg = "Failed to mount composefs"
    /\ \A i \in Calls : ~ IsBaseBind(ops[i])
    /\ exit_status = "EXIT_SUCCESS" => using_composefs

\* under ON the composefs mount failed and the run exited non-zero
C4_Witness ==
  /\ composefs_mode = OSTREE_COMPOSEFS_MODE_ON
  /\ Failed
  /\ fail_msg = "Failed to mount composefs"
  /\ IsCfsMount(ops[Len(ops)]) /\ ~ ops[Len(ops)].ok

-----------------------------------------------------------------------------
(* C5 *)

\* call j is a successful read `call` of `src`
Read(j, call, src) == ops[j].call = call /\ ops[j].src = src /\ ops[j].ok

\* before call i, in this order: commit loaded, commitmeta loaded, signature
\* list found, a signature validated, embedded digest found
VerifiedInOrderBefore(i) ==
  \E a \in 1..(i - 1) :
    /\ Read(a, "load_variant", "commit")
    /\ \E b \in (a + 1)..(i - 1) :
         /\ Read(b, "load_variant", "commitmeta")
         /\ \E c \in (b + 1)..(i - 1) :
              /\ Read(c, "g_variant_lookup_value", "commitmeta")
              /\ \E d \in (c + 1)..(i - 1) :
                   /\ Read(d, "validate_signature", "commit")
                   /\ \E e \in (d + 1)..(i - 1) :
                        Read(e, "g_variant_lookup_value", "commit")

\* the exits of the SIGNED verification
VerificationFailures ==
  { "Failed to load public key",
    "Error loading signatures from repo: g_file_get_contents: commit",
    "Error loading signatures from repo: No commitmeta for commit",
    "Error loading signatures from repo: g_file_get_contents: commitmeta",
    "Signature validation requested, but no signatures in commit",
    "signature verification failed",
    "No valid signatures found for public key",
    "Signature validation requested, but no valid digest in commit" }

\* C5: under SIGNED, lcfs_mount_image is called only after the commit was
\* loaded, then the commitmeta, then the signature list was found, then one
\* signature validated with the supplied key, then an embedded digest of
\* exactly OSTREE_SHA256_DIGEST_LEN bytes was found; the mount requires verity
\* with exactly that digest; no mount is made on the staging tree before it,
\* and a run that fails one of these steps makes no staging mount at all.
C5_SignedMountOnlyAfterVerification ==
  composefs_mode = OSTREE_COMPOSEFS_MODE_SIGNED =>
    /\ \A i \in Calls :
         IsCfsMount(ops[i]) =>
           /\ VerifiedInOrderBefore(i)
           /\ signatures # NULL
           /\ sigs_examined \in 1..Len(signatures)
           /\ signatures[sigs_examined] = "valid"
           /\ cfs_digest_v # NULL
           /\ Len(cfs_digest_v) = OSTREE_SHA256_DIGEST_LEN
           /\ "LCFS_MOUNT_FLAGS_REQUIRE_VERITY" \in ops[i].flags
           /\ Len(ops[i].data) = OSTREE_SHA256_STRING_LEN
           /\ FromHex(ops[i].data) = cfs_digest_v
    /\ \A j \in Calls : IsStagingMount(ops[j]) => \E i \in 1..j : IsCfsMount(ops[i])
    /\ (Failed /\ fail_msg \in VerificationFailures)
         => \A j \in Calls : ~ IsStagingMount(ops[j])

\* a signed commit with an embedded digest was mounted with that digest required
C5_Witness ==
  /\ composefs_mode = OSTREE_COMPOSEFS_MODE_SIGNED
  /\ using_composefs
  /\ cfs_digest_v = Bytes(OSTREE_SHA256_DIGEST_LEN, 3, 37)
  /\ \E i \in Calls : IsCfsMount(ops[i]) /\ ops[i].ok

-----------------------------------------------------------------------------
(* C6 *)

ValidIndices(sigs) == { k \in 1..Len(sigs) : sigs[k] = "valid" }

\* validate_signature has run on a list holding exactly one valid signature
ValidatedExactlyOneValid ==
  /\ \E i \in Calls : ops[i].call = "validate_signature"
  /\ Cardinality(ValidIndices(signatures)) = 1

ValidationSucceeded ==
  /\ \E i \in Calls : ops[i].call = "validate_signature" /\ ops[i].ok
  /\ \E m \in 1..Len(metadata_builder) : metadata_builder[m].key = "composefs.signed"

\* C6 as stated: with exactly one valid signature in the list, at any
\* position, validation succeeds whatever the verifier reports for the
\* others, a verification error on an earlier entry included, and the
\* signatures after the valid one are not examined.
C6_OneValidAlwaysSucceeds ==
  ValidatedExactlyOneValid =>
    /\ ValidationSucceeded
    /\ sigs_examined \in ValidIndices(signatures)

\* C6 amended: with exactly one valid signature in the list, at any position,
\* validation succeeds when the verifier reports no error for an entry before
\* it (those entries may be invalid), and the entries after it are not
\* examined; a verification error reported for an earlier entry ends the run
\* with "signature verification failed" at that entry.
C6_OneValidSucceedsUnlessEarlierError ==
  ValidatedExactlyOneValid =>
    LET k == CHOOSE x \in ValidIndices(signatures) : TRUE
        errors == { j \in 1..(k - 1) : signatures[j] = "error" }
    IN IF errors = {}
       THEN /\ ValidationSucceeded
            /\ sigs_examined = k
       ELSE /\ Failed
            /\ fail_msg = "signature verification failed"
            /\ sigs_examined \in errors
            /\ \A j \in errors : sigs_examined <= j
            /\ ~ ValidationSucceeded

\* the only valid signature is the first, the one after it is malformed, and
\* validation succeeded having examined one signature
C6_Witness ==
  /\ signatures = << "valid", "error" >>
  /\ ValidationSucceeded
  /\ sigs_examined = 1

-----------------------------------------------------------------------------
(* C7 *)

\* the signature list was looked up
SignaturesLookedUp ==
  \E i \in Calls : ops[i].call = "g_variant_lookup_value" /\ ops[i].src = "commitmeta"

\* C7: under SIGNED, when the commit and commitmeta loaded but the commitmeta
\* holds no signature (no entry, or an empty list), lcfs_mount_image is never
\* called and the run ends non-zero.
C7_NoSignaturesIsFatal ==
  (/\ composefs_mode = OSTREE_COMPOSEFS_MODE_SIGNED
   /\ SignaturesLookedUp
   /\ signatures = NULL \/ Len(signatures) = 0)
    => /\ \A i \in Calls : ~ IsCfsMount(ops[i])
       /\ \A i \in Calls : ~ IsStagingMount(ops[i])
       /\ \E a \in Calls : \E b \in Calls :
            a < b /\ Read(a, "load_variant", "commit") /\ Read(b, "load_variant", "commitmeta")
       /\ IF signatures = NULL
          THEN Failed /\ fail_msg = "Signature validation requested, but no signatures in commit"
          ELSE \/ pc = "validate_signature" /\ exit_status = "running"
               \/ Failed /\ fail_msg = "No valid signatures found for public key"

\* an empty signature list ended the run
C7_Witness ==
  /\ composefs_mode = OSTREE_COMPOSEFS_MODE_SIGNED
  /\ signatures = <<>>
  /\ Failed
  /\ fail_msg = "No valid signatures found for public key"

-----------------------------------------------------------------------------
(* C8 *)

\* calls that load or verify a commit, a commitmeta or a key
VerificationCalls ==
  { "g_file_get_contents", "load_variant", "g_variant_lookup_value", "validate_signature" }

\* C8: under DIGEST no key, commit or signature is read; lcfs_mount_image is
\* the first mount made on the staging tree, is called (in a build with
\* HAVE_COMPOSEFS) once the run has entered the deployment directory, and
\* requires verity with exactly the text after "digest="; when it fails the
\* run is fatal, and the last diagnostic line is the verity-mismatch line
\* exactly when the errno is EWRONGVERITY.
C8_DigestPolicyRequiresThatDigest ==
  composefs_mode = OSTREE_COMPOSEFS_MODE_DIGEST =>
    /\ \A i \in Calls : ops[i].call \notin VerificationCalls
    /\ signatures = NULL /\ cfs_digest_v = NULL /\ sigs_examined = 0
    /\ \A i \in Calls :
         IsCfsMount(ops[i]) =>
           /\ "LCFS_MOUNT_FLAGS_REQUIRE_VERITY" \in ops[i].flags
           /\ ops[i].data # NULL
           /\ ot_composefs = S_digest_eq \o ops[i].data
    /\ \A j \in Calls : IsStagingMount(ops[j]) => \E i \in 1..j : IsCfsMount(ops[i])
    /\ (/\ have_composefs
        /\ \E i \in Calls : Did(i, "chdir", "deploy", {})
        /\ pc \notin { "composefs_branch", "mount_composefs" })
         => \E i \in Calls : IsCfsMount(ops[i])
    /\ (\E i \in Calls : IsCfsMount(ops[i]) /\ ~ ops[i].ok)
         => /\ errno \in MountErrnos
            /\ Len(diag) > 0
            /\ (errno = "EWRONGVERITY")
                 <=> (diag[Len(diag)] = "Wrong verity digest in composefs image")
            /\ pc = "base_root" \/ (Failed /\ fail_msg = "Failed to mount composefs")

\* under DIGEST the mount failed on a verity mismatch and the run ended non-zero
C8_Witness ==
  /\ composefs_mode = OSTREE_COMPOSEFS_MODE_DIGEST
  /\ Failed
  /\ errno = "EWRONGVERITY"
  /\ ot_composefs = S_digest_eq \o ot_bin2hex(Bytes(OSTREE_SHA256_DIGEST_LEN, 3, 37))

-----------------------------------------------------------------------------
(* C9 *)

\* C9: lcfs_mount_image is never called requiring a verity digest whose
\* length is not that of a digest (OSTREE_SHA256_STRING_LEN hex digits for
\* OSTREE_SHA256_DIGEST_LEN bytes); a run given such a digest is fatal before
\* the mount.
C9_WrongSizedDigestNeverMounted ==
  \A i \in Calls :
    (IsCfsMount(ops[i]) /\ "LCFS_MOUNT_FLAGS_REQUIRE_VERITY" \in ops[i].flags)
      => Len(ops[i].data) = OSTREE_SHA256_STRING_LEN

-----------------------------------------------------------------------------
(* C10 *)

\* the ot-composefs value has been parsed and accepted
ParseAccepted ==
  /\ pc \notin { "check_args", "stat_proc_cmdline", "realpath_root",
                 "resolve_deploy_path", "umount_proc", "parse_composefs" }
  /\ ~ (Failed /\ fail_msg \in
          { "usage: ostree-prepare-root SYSROOT", "stat(\"/proc/cmdline\") failed",
            "failed to mount proc on /proc", "realpath(root_arg)",
            "No ostree= cmdline", "Couldn't find specified OSTree root",
            "OSTree target is not a symbolic link", "realpath(destpath) failed",
            "stat(deploy_path) failed", "failed to umount proc from /proc",
            "Unsupported ot-composefs option" })

\* the values the policy key accepts
Accepted(v) ==
  \/ v = NULL
  \/ v \in { S_off, S_maybe, S_on }
  \/ Len(v) >= 7 /\ SubSeq(v, 1, 7) \in { S_signed_eq, S_digest_eq }

\* C10: the policy is a function of the ot-composefs value alone: absent ->
\* MAYBE, "off" -> OFF, "maybe" -> MAYBE, "on" -> ON, "signed=<p>" -> SIGNED
\* with key p, "digest=<d>" -> DIGEST with digest d (as parsed, and for the
\* rest of the run in a build with HAVE_COMPOSEFS); any other value is fatal
\* before the staging mountpoint is created or mounted on; under OFF
\* lcfs_mount_image is never called and the first staging mount is the bind
\* mount of the deployment directory.
C10_PolicyIsFunctionOfCmdline ==
  /\ (ParseAccepted /\ (pc = "ifndef_composefs" \/ have_composefs)) =>
       /\ Accepted(ot_composefs)
       /\ ot_composefs = NULL =>
            composefs_mode = OSTREE_COMPOSEFS_MODE_MAYBE /\ composefs_pubkey = NULL
       /\ ot_composefs = S_off =>
            composefs_mode = OSTREE_COMPOSEFS_MODE_OFF /\ composefs_pubkey = NULL
       /\ ot_composefs = S_maybe =>
            composefs_mode = OSTREE_COMPOSEFS_MODE_MAYBE /\ composefs_pubkey = NULL
       /\ ot_composefs = S_on =>
            composefs_mode = OSTREE_COMPOSEFS_MODE_ON /\ composefs_pubkey = NULL
       /\ composefs_mode \in { OSTREE_COMPOSEFS_MODE_OFF, OSTREE_COMPOSEFS_MODE_MAYBE,
                               OSTREE_COMPOSEFS_MODE_ON }
            => composefs_digest = NULL
       /\ (Len(ot_composefs) >= 7 /\ SubSeq(ot_composefs, 1, 7) = S_signed_eq) =>
            /\ composefs_mode = OSTREE_COMPOSEFS_MODE_SIGNED
            /\ composefs_pubkey # NULL
            /\ ot_composefs = S_signed_eq \o composefs_pubkey
            /\ pc = "ifndef_composefs" => composefs_digest = NULL
       /\ (Len(ot_composefs) >= 7 /\ SubSeq(ot_composefs, 1, 7) = S_digest_eq) =>
            /\ composefs_mode = OSTREE_COMPOSEFS_MODE_DIGEST
            /\ composefs_pubkey = NULL
            /\ composefs_digest # NULL
            /\ ot_composefs = S_digest_eq \o composefs_digest
  /\ ~ Accepted(ot_composefs) =>
       /\ Failed
       /\ fail_msg = "Unsupported ot-composefs option"
       /\ \A i \in Calls : ops[i].call # "mkdir" /\ ~ IsStagingMount(ops[i])
  /\ (ParseAccepted /\ composefs_mode = OSTREE_COMPOSEFS_MODE_OFF) =>
       /\ \A i \in Calls : ~ IsCfsMount(ops[i])
       /\ \A j \in Calls :
            IsStagingMount(ops[j])
              => \E i \in 1..j : IsBaseBind(ops[i]) /\ (ops[i].ok \/ i = j)
       /\ exit_status = "EXIT_SUCCESS" => \E i \in Calls : IsBaseBind(ops[i]) /\ ops[i].ok

\* "off" on the command line, the deployment directory bind mounted, the run
\* successful
C10_Witness ==
  /\ ot_composefs = S_off
  /\ composefs_mode = OSTREE_COMPOSEFS_MODE_OFF
  /\ exit_status = "EXIT_SUCCESS"
  /\ \E i \in Calls : IsBaseBind(ops[i]) /\ ops[i].ok

-----------------------------------------------------------------------------
(* C11 *)

\* the exits of resolve_deploy_path for a missing deployment target
TargetMissing ==
  /\ Failed
  /\ fail_msg \in { "No ostree= cmdline", "Couldn't find specified OSTree root",
                    "OSTree target is not a symbolic link" }

\* C11: when the deployment target is missing (no target parameter, or the
\* target path does not exist or is not a symbolic link) the run ends
\* non-zero having attempted no mount at all, on /proc included, so the mount
\* table at exit is the one at start.
C11_TargetMissingLeavesNoMount ==
  TargetMissing =>
    \A i \in Calls : ops[i].call \notin { "mount", "lcfs_mount_image", "pivot_root" }

-----------------------------------------------------------------------------
(* C12 *)

\* call i is the successful mount (src, tgt) with exactly the flags f
Mounted(i, src, tgt, f) ==
  /\ ops[i].call = "mount"
  /\ ops[i].src = src
  /\ ops[i].tgt = tgt
  /\ ops[i].flags = f
  /\ ops[i].ok

\* a bind mount of src on tgt followed, later, by its remount with the flags f
BindThenRemount(src, tgt, f) ==
  \E i \in Calls : \E j \in Calls :
    /\ i < j
    /\ Mounted(i, src, tgt, {"MS_BIND", "MS_SILENT"})
    /\ Mounted(j, tgt, tgt, f)

WritableRemount == {"MS_BIND", "MS_REMOUNT", "MS_SILENT"}
ReadOnlyRemount == {"MS_BIND", "MS_REMOUNT", "MS_RDONLY", "MS_SILENT"}

\* a successful run with sysroot.readonly, no composefs, no .usr-ovl-work
ScenarioA ==
  /\ exit_status = "EXIT_SUCCESS"
  /\ sysroot_readonly
  /\ ~ using_composefs
  /\ \E i \in Calls : ops[i].call = "lstat" /\ ops[i].tgt = ".usr-ovl-work" /\ ~ ops[i].ok

\* the mounts scenario A leaves on the staging tree
ScenarioAStagingMounts ==
  /\ BindThenRemount("etc", "/sysroot.tmp/etc", WritableRemount)
  /\ BindThenRemount("../../var", "../../var", WritableRemount)
  /\ BindThenRemount("/sysroot.tmp/usr", "/sysroot.tmp/usr", ReadOnlyRemount)

SysrootRemountedReadOnly ==
  \E i \in Calls : Mounted(i, "sysroot", "sysroot", ReadOnlyRemount)

\* C12 as stated: every successful run with a read-only physical root, no
\* composed image and no /usr overlay marker ends with a writable bind mount
\* at staging /etc, a writable self bind mount at the stateroot /var, a
\* read-only self bind mount at staging /usr and a read-only remount of the
\* nested sysroot.
C12_ScenarioAInEveryTopology ==
  ScenarioA => ScenarioAStagingMounts /\ SysrootRemountedReadOnly

\* what C12 requires of a state
ScenarioASysrootOnlyWhenMoved ==
  ScenarioA =>
    /\ ScenarioAStagingMounts
    /\ IF root_mountpoint = "/"
       THEN \A i \in Calls : ~ (ops[i].tgt = "sysroot" /\ "MS_RDONLY" \in ops[i].flags)
       ELSE /\ Len(ops) >= 2
            /\ Mounted(Len(ops) - 1, "sysroot", "sysroot", ReadOnlyRemount)
            /\ Mounted(Len(ops), "none", "sysroot", {"MS_PRIVATE", "MS_SILENT"})

\* C12 amended: such a run has the three staging mounts in both topologies;
\* the read-only remount of the nested sysroot is made when root_mountpoint
\* is not "/", as the last call before the sysroot is made private, and is
\* not made when root_mountpoint is "/" (the pivot_root topology).
C12_ScenarioASysrootOnlyWhenMoved == []ScenarioASysrootOnlyWhenMoved

\* scenario A completed with the physical root at /sysroot
C12_Witness == ScenarioA /\ root_mountpoint = "/sysroot" /\ SysrootRemountedReadOnly

-----------------------------------------------------------------------------
(* C13 *)

\* the /boot step is over: its lstat calls are made and its mount, if any
BootStepDone == boot_layout # <<>> /\ pc # "mount_boot"

IsBootMount(o) == o.call = "mount" /\ o.tgt = "/sysroot.tmp/boot"

BootMountMade == \E i \in Calls : IsBootMount(ops[i])

\* C13 as stated: the physical root's /boot is bind-mounted onto staging /boot
\* if and only if the deployment's own /boot/loader is a symbolic link and the
\* deployment has a /boot directory.
C13_BootIffDeploymentLoader ==
  BootStepDone =>
    (BootMountMade <=> (boot_layout[1].deploy_loader_is_symlink /\ boot_layout[1].boot_is_dir))

\* what C13 requires of a state
BootIffPhysicalLoader ==
  /\ BootStepDone =>
       (BootMountMade <=> (boot_layout[1].root_loader_is_symlink /\ boot_layout[1].boot_is_dir))
  /\ \A i \in Calls :
       IsBootMount(ops[i]) =>
         /\ ops[i].src = "root_mountpoint/boot"
         /\ ops[i].flags = {"MS_BIND", "MS_SILENT"}
         /\ \A j \in Calls : IsBootMount(ops[j]) => j = i

\* C13 amended: the physical root's /boot is bind-mounted onto staging /boot,
\* once, if and only if <root_mountpoint>/boot/loader is a symbolic link and
\* the deployment has a /boot directory; otherwise no mount is made at
\* staging /boot.
C13_BootIffPhysicalLoader == []BootIffPhysicalLoader

\* /boot was mounted although the deployment's own boot/loader is no symlink
C13_Witness ==
  /\ BootStepDone
  /\ \E i \in Calls : IsBootMount(ops[i]) /\ ops[i].ok
  /\ ~ boot_layout[1].deploy_loader_is_symlink

-----------------------------------------------------------------------------
(* C14 *)

TouchesStagingEtc(o) == o.tgt = "/sysroot.tmp/etc" \/ o.src = "/sysroot.tmp/etc"

IsEtcBind(o) ==
  /\ o.call = "mount" /\ o.src = "etc" /\ o.tgt = "/sysroot.tmp/etc"
  /\ o.flags = {"MS_BIND", "MS_SILENT"}

IsEtcRemount(o) ==
  /\ o.call = "mount" /\ o.src = "/sysroot.tmp/etc" /\ o.tgt = "/sysroot.tmp/etc"
  /\ o.flags = WritableRemount

\* a composed image was mounted as the base root
CfsMounted == \E i \in Calls : IsCfsMount(ops[i]) /\ ops[i].ok

\* index of the lstat that opens the /usr step, 0 while it is not reached
UsrStepAt ==
  IF \E i \in Calls : ops[i].call = "lstat" /\ ops[i].tgt = ".usr-ovl-work"
  THEN CHOOSE i \in Calls : ops[i].call = "lstat" /\ ops[i].tgt = ".usr-ovl-work"
  ELSE 0

\* what C14 requires of a state
EtcIffReadonlyOrComposefs ==
  /\ \A i \in Calls :
       TouchesStagingEtc(ops[i]) =>
         /\ sysroot_readonly \/ CfsMounted
         /\ \/ IsEtcBind(ops[i]) /\ \A j \in 1..(i - 1) : ~ TouchesStagingEtc(ops[j])
            \/ /\ IsEtcRemount(ops[i])
               /\ i > 1 /\ IsEtcBind(ops[i - 1]) /\ ops[i - 1].ok
  /\ LET u == UsrStepAt
     IN (u # 0 /\ (sysroot_readonly \/ CfsMounted)) =>
          /\ u > 2
          /\ IsEtcBind(ops[u - 2]) /\ ops[u - 2].ok
          /\ IsEtcRemount(ops[u - 1]) /\ ops[u - 1].ok

\* C14: the deployment's /etc is bind-mounted at staging /etc and then
\* remounted writable, in that order, exactly when the physical root is
\* configured read-only or a composed image was mounted as base root: every
\* call on staging /etc is that bind or, after the bind succeeded, that
\* remount, each made once; a run that went on to the /usr step has both,
\* successful; and when neither condition holds no call touches staging /etc.
C14_EtcIffReadonlyOrComposefs == []EtcIffReadonlyOrComposefs

\* /etc bound and remounted for a composed image alone
C14_Witness ==
  /\ UsrStepAt # 0
  /\ ~ sysroot_readonly
  /\ CfsMounted
  /\ \E i \in Calls : IsEtcRemount(ops[i]) /\ ops[i].ok

-----------------------------------------------------------------------------
(* C15 *)

TouchesStagingUsr(o) == o.tgt = "/sysroot.tmp/usr" \/ o.src = "/sysroot.tmp/usr"

IsRoCheck(o) == o.call = "path_is_on_readonly_fs" /\ o.tgt = TMP_SYSROOT

IsRootfsRemount(o) ==
  /\ o.call = "mount" /\ o.src = TMP_SYSROOT /\ o.tgt = TMP_SYSROOT
  /\ o.flags = {"MS_REMOUNT", "MS_SILENT"}

IsOverlay(o) ==
  /\ o.call = "mount" /\ o.src = "overlay" /\ o.tgt = "/sysroot.tmp/usr"
  /\ o.flags = {"MS_SILENT"}

IsUsrBind(o) ==
  /\ o.call = "mount" /\ o.src = "/sysroot.tmp/usr" /\ o.tgt = "/sysroot.tmp/usr"
  /\ o.flags = {"MS_BIND", "MS_SILENT"}

IsUsrRemountRo(o) ==
  /\ o.call = "mount" /\ o.src = "/sysroot.tmp/usr" /\ o.tgt = "/sysroot.tmp/usr"
  /\ o.flags = ReadOnlyRemount

\* the run went on past the /usr step
VarStepReached ==
  \E i \in Calls : ops[i].call = "lstat" /\ ops[i].tgt = "INITRAMFS_MOUNT_VAR"

\* outcome (1): the marker exists
UsrOverlayOutcome(u) ==
  /\ \A i \in Calls :
       /\ TouchesStagingUsr(ops[i]) => IsOverlay(ops[i])
       /\ IsRootfsRemount(ops[i]) => i = u + 2 /\ IsRoCheck(ops[u + 1]) /\ ops[u + 1].ok
       /\ IsOverlay(ops[i]) =>
            /\ IsRoCheck(ops[u + 1])
            /\ IF ops[u + 1].ok
               THEN i = u + 3 /\ IsRootfsRemount(ops[u + 2]) /\ ops[u + 2].ok
               ELSE i = u + 2
  /\ VarStepReached => \E i \in Calls : IsOverlay(ops[i]) /\ ops[i].ok

\* outcome (2): no marker, no composed image
UsrBindOutcome(u) ==
  /\ \A i \in Calls :
       /\ ~ IsRootfsRemount(ops[i])
       /\ ~ IsRoCheck(ops[i])
       /\ TouchesStagingUsr(ops[i]) =>
            \/ i = u + 1 /\ IsUsrBind(ops[i])
            \/ i = u + 2 /\ IsUsrRemountRo(ops[i]) /\ IsUsrBind(ops[u + 1]) /\ ops[u + 1].ok
  /\ VarStepReached =>
       /\ IsUsrBind(ops[u + 1]) /\ ops[u + 1].ok
       /\ IsUsrRemountRo(ops[u + 2]) /\ ops[u + 2].ok

\* outcome (3): no marker, composed image in use
UsrUntouchedOutcome ==
  \A i \in Calls :
    ~ TouchesStagingUsr(ops[i]) /\ ~ IsRootfsRemount(ops[i]) /\ ~ IsRoCheck(ops[i])

\* what C15 requires of a state
UsrThreeOutcomes ==
  LET u == UsrStepAt
  IN IF u = 0
     THEN UsrUntouchedOutcome
     ELSE /\ \A i \in 1..u : ~ TouchesStagingUsr(ops[i]) /\ ~ IsRootfsRemount(ops[i])
          /\ IF ops[u].ok THEN UsrOverlayOutcome(u)
             ELSE IF ~ CfsMounted THEN UsrBindOutcome(u)
             ELSE UsrUntouchedOutcome

\* C15: the /usr step has one of three outcomes.  (1) With the overlay marker
\* an overlay is mounted on staging /usr, and when the staging tree is on a
\* read-only filesystem it is remounted writable, successfully, right before
\* the overlay mount.  (2) Without the marker and without a composed image
\* staging /usr is bind-mounted on itself and then remounted read-only.
\* (3) Without the marker and with a composed image no call touches staging
\* /usr.  Nothing touches staging /usr before the step.
C15_UsrThreeOutcomes == []UsrThreeOutcomes

\* the overlay mounted after the staging tree was remounted writable
C15_Witness ==
  /\ VarStepReached
  /\ \E i \in Calls : IsRootfsRemount(ops[i]) /\ ops[i].ok
  /\ \E i \in Calls : IsOverlay(ops[i]) /\ ops[i].ok

-----------------------------------------------------------------------------
(* C16 *)

\* the /var step is over: the marker is looked up and the mount, if any, made
VarStepDone == have_systemd_and_libmount # "unread" /\ pc # "var_into_staging"

IsVarIntoStaging(o) ==
  /\ o.call = "mount" /\ o.src = "../../var" /\ o.tgt = "/sysroot.tmp/var"
  /\ o.flags = {"MS_BIND", "MS_SILENT"}

VarIntoStagingMade == \E i \in Calls : IsVarIntoStaging(ops[i])

\* lstat found the INITRAMFS_MOUNT_VAR marker file
VarMarkerPresent ==
  \E i \in Calls :
    ops[i].call = "lstat" /\ ops[i].tgt = "INITRAMFS_MOUNT_VAR" /\ ops[i].ok

\* C16 as stated: the stateroot's /var is bind-mounted into staging /var
\* unless the detection is positive, the detection being positive when the
\* compile-time capability is absent or the marker file is present; with the
\* marker file present the bind mount is skipped.
C16_VarMountSkippedOnDetection ==
  VarStepDone =>
    /\ VarIntoStagingMade <=>
         ~ (have_systemd_and_libmount = "undefined" \/ VarMarkerPresent)
    /\ VarMarkerPresent => ~ VarIntoStagingMade

\* what C16 requires of a state
VarMountedUnlessSystemdWithoutMarker ==
  /\ VarStepDone =>
       (VarIntoStagingMade <=>
          (have_systemd_and_libmount = "undefined" \/ VarMarkerPresent))
  /\ \A i \in Calls :
       ops[i].tgt = "/sysroot.tmp/var" =>
         /\ IsVarIntoStaging(ops[i])
         /\ \A j \in Calls : ops[j].tgt = "/sysroot.tmp/var" => j = i

\* C16 amended: the stateroot's /var is bind-mounted into staging /var, once,
\* exactly when the compile-time capability is absent or the marker file is
\* present; it is skipped only with the capability compiled in and no marker
\* file.  Nothing else is mounted on staging /var.
C16_VarMountedUnlessSystemdWithoutMarker == []VarMountedUnlessSystemdWithoutMarker

\* with the capability compiled in, the marker file made the run mount /var
C16_Witness ==
  /\ VarStepDone
  /\ have_systemd_and_libmount = "defined"
  /\ VarMarkerPresent
  /\ \E i \in Calls : IsVarIntoStaging(ops[i]) /\ ops[i].ok

-----------------------------------------------------------------------------
(* C17 *)

IsPivot(o) == o.call = "pivot_root" /\ o.src = "." /\ o.tgt = "sysroot"

IsMove(o) == o.call = "mount" /\ "MS_MOVE" \in o.flags

\* the pivot_root topology: one pivot_root (".", "sysroot"), no MS_MOVE
PivotTopology ==
  /\ \E i \in Calls :
       /\ IsPivot(ops[i]) /\ ops[i].ok
       /\ \A j \in Calls : ops[j].call = "pivot_root" => j = i
  /\ \A i \in Calls : ~ IsMove(ops[i])

\* the MS_MOVE topology: no pivot_root
MoveTopology == \A i \in Calls : ops[i].call # "pivot_root"

\* C17 as stated: a successful run executes the pivot_root topology when the
\* argument is "/" exactly and no pivot_root when it is anything else.
C17_TopologyByArgument ==
  exit_status = "EXIT_SUCCESS" =>
    IF root_arg = <<"/">> THEN PivotTopology ELSE MoveTopology

\* what C17 requires of a state
TopologyByRealpath ==
  exit_status = "EXIT_SUCCESS" =>
    IF realpath(root_arg) = "/"
    THEN PivotTopology
    ELSE /\ MoveTopology
         /\ Cardinality({ i \in Calls : IsMove(ops[i]) /\ ops[i].ok }) = 2

\* C17 amended: a successful run executes exactly one topology, selected by
\* whether realpath of the argument is "/": the pivot_root topology when it
\* is, and otherwise two MS_MOVE mounts and no pivot_root.
C17_TopologyByRealpath == []TopologyByRealpath

\* a successful pivot_root for an argument that is not "/" itself
C17_Witness ==
  /\ exit_status = "EXIT_SUCCESS"
  /\ root_arg # <<"/">>
  /\ \E i \in Calls : IsPivot(ops[i]) /\ ops[i].ok

-----------------------------------------------------------------------------
(* C18 *)

IsMovePhysicalRoot(o) ==
  /\ o.call = "mount" /\ o.src = root_mountpoint /\ o.tgt = "sysroot"
  /\ o.flags = {"MS_MOVE", "MS_SILENT"}

IsMoveStaging(o) ==
  /\ o.call = "mount" /\ o.src = "." /\ o.tgt = root_mountpoint
  /\ o.flags = {"MS_MOVE", "MS_SILENT"}

IsChdirRoot(o) == o.call = "chdir" /\ o.tgt = root_mountpoint

IsRmdirStaging(o) == o.call = "rmdir" /\ o.tgt = TMP_SYSROOT

IsSysrootRemountRo(o) ==
  /\ o.call = "mount" /\ o.src = "sysroot" /\ o.tgt = "sysroot"
  /\ o.flags = ReadOnlyRemount

IsSysrootPrivate(o) ==
  /\ o.call = "mount" /\ o.src = "none" /\ o.tgt = "sysroot"
  /\ o.flags = {"MS_PRIVATE", "MS_SILENT"}

\* call i comes right after a successful call that satisfies the test
After(i, ok_before) == i > 1 /\ ops[i - 1].ok /\ ok_before

\* what C18 requires of a state
SubordinateSwitchOrder ==
  root_mountpoint \notin { "", "/" } =>
    /\ \A i \in Calls :
         /\ IsMovePhysicalRoot(ops[i]) =>
              /\ After(i, ops[i - 1].call = "chdir" /\ ops[i - 1].tgt = TMP_SYSROOT)
              /\ \A j \in Calls : IsMove(ops[j]) => j >= i
         /\ IsMoveStaging(ops[i]) => After(i, IsMovePhysicalRoot(ops[i - 1]))
         /\ IsChdirRoot(ops[i]) => After(i, IsMoveStaging(ops[i - 1]))
         /\ IsRmdirStaging(ops[i]) => After(i, IsChdirRoot(ops[i - 1]))
         /\ IsSysrootRemountRo(ops[i]) =>
              sysroot_readonly /\ After(i, IsRmdirStaging(ops[i - 1]))
         /\ IsSysrootPrivate(ops[i]) =>
              After(i, IF sysroot_readonly THEN IsSysrootRemountRo(ops[i - 1])
                                           ELSE IsRmdirStaging(ops[i - 1]))
    /\ exit_status = "EXIT_SUCCESS" =>
         /\ root_path_holds = "staging"
         /\ phys_root_at = "sysroot"
         /\ \E i \in Calls : IsRmdirStaging(ops[i]) /\ ops[i].ok
         /\ IsSysrootPrivate(ops[Len(ops)])

\* C18: with root_mountpoint other than "/" the switch is, in this order and
\* each step right after the success of the one before: MS_MOVE of the
\* physical root onto staging sysroot, MS_MOVE of the staging tree onto
\* root_mountpoint, chdir into it, rmdir of the staging directory and, if and
\* only if sysroot_readonly, the read-only remount of sysroot.  A successful
\* run ends with the deployment at root_mountpoint, the physical root at its
\* sysroot and the staging directory removed.
C18_SubordinateSwitchOrder == []SubordinateSwitchOrder

\* a successful switch at /sysroot with the read-only remount
C18_Witness ==
  /\ exit_status = "EXIT_SUCCESS"
  /\ root_mountpoint = "/sysroot"
  /\ \E i \in Calls : IsSysrootRemountRo(ops[i]) /\ ops[i].ok

-----------------------------------------------------------------------------
(* C19 *)

IsRecordWrite(o) ==
  o.call = "glnx_file_replace_contents_at" /\ o.tgt = "OTCORE_RUN_BOOTED"

IsVarLstat(o) == o.call = "lstat" /\ o.tgt = "INITRAMFS_MOUNT_VAR"

\* what C19 requires of a state
RecordOnceBetweenVarAndSwitch ==
  /\ \A i \in Calls :
       /\ IsRecordWrite(ops[i]) =>
            /\ \A j \in Calls : IsRecordWrite(ops[j]) => j = i
            /\ i > 1
            /\ \/ IsVarLstat(ops[i - 1])
               \/ IsVarIntoStaging(ops[i - 1]) /\ ops[i - 1].ok
            /\ \A j \in Calls :
                 /\ IsStagingMount(ops[j]) => j < i
                 /\ IsSwitchOp(ops[j]) => j > i
            /\ ~ ops[i].ok =>
                 /\ i = Len(ops)
                 /\ Failed
                 /\ fail_msg = "Writing OTCORE_RUN_BOOTED"
                 /\ root_path_holds = "physical"
       /\ IsSwitchOp(ops[i]) =>
            /\ \E j \in 1..(i - 1) : IsRecordWrite(ops[j]) /\ ops[j].ok
            /\ Len(run_booted) = 1
  /\ Len(run_booted) = Cardinality({ i \in Calls : IsRecordWrite(ops[i]) /\ ops[i].ok })
  /\ (VarStepDone /\ pc # "write_run_booted" /\ ~ (Failed /\ IsVarIntoStaging(ops[Len(ops)])))
       => \E i \in Calls : IsRecordWrite(ops[i])

\* C19: the run-state record is written at most once, and once in every run
\* that gets past the /var step: right after the /var step (its lstat, or its
\* successful mount into staging /var), after every staging mount and before
\* every switch call.  In a state where a switch call has been made the
\* record is written.  A failed write is the last call of the run, which
\* exits with failure without a switch call.
C19_RecordOnceBetweenVarAndSwitch == []RecordOnceBetweenVarAndSwitch

\* a switch call made with the record written
C19_Witness ==
  /\ Len(run_booted) = 1
  /\ \E i \in Calls : IsSwitchOp(ops[i]) /\ ops[i].ok

-----------------------------------------------------------------------------
(* C20 *)

\* the statements of main() in the order of the source
PcOrder ==
  << "check_args", "stat_proc_cmdline", "realpath_root", "resolve_deploy_path",
     "umount_proc", "parse_composefs", "ifndef_composefs", "query_sysroot",
     "make_root_private", "mkdir_tmp_sysroot", "chdir_deploy", "composefs_branch",
     "load_pubkey", "load_commit", "lookup_signatures", "validate_signature",
     "extract_digest", "mount_composefs", "base_root", "check_sysroot_writable",
     "prepare_boot", "mount_boot", "prepare_etc", "etc_bind", "etc_remount",
     "prepare_usr", "usr_check_rootfs", "usr_remount_rootfs", "usr_overlay",
     "usr_bind", "usr_remount_ro", "prepare_var", "var_bind", "var_remount",
     "mount_var", "var_into_staging", "write_run_booted", "chdir_tmp_sysroot",
     "switch_root", "move_staging", "chdir_root", "rmdir_tmp_sysroot",
     "sysroot_remount_ro", "sysroot_private", "exited" >>

PcRank(label) == CHOOSE i \in 1..Len(PcOrder) : PcOrder[i] = label

\* a call that failed, other than a probe answering "no" and other than the
\* composefs mount under ot-composefs=maybe
FailingCall(o) ==
  /\ ~ o.ok
  /\ o.call \notin { "lstat", "path_is_on_readonly_fs" }
  /\ ~ (IsCfsMount(o) /\ composefs_mode = OSTREE_COMPOSEFS_MODE_MAYBE)

\* the first failing call is the last call and the run has exited with
\* failure (a failed composefs mount is followed by its diagnostic line, then
\* by the exit); a run exits with success only with no failing call, the switch
\* completed and sysroot made private by its last call; a run that has not
\* exited has a next step
ExitDiscipline ==
  /\ \A i \in Calls :
       FailingCall(ops[i]) =>
         /\ i = Len(ops)
         /\ Failed \/ (IsCfsMount(ops[i]) /\ pc = "base_root")
  /\ exit_status = "EXIT_SUCCESS" =>
       /\ pc = "exited"
       /\ \A i \in Calls : ~ FailingCall(ops[i])
       /\ root_path_holds = "staging"
       /\ IsSysrootPrivate(ops[Len(ops)]) /\ ops[Len(ops)].ok
  /\ pc = "exited" <=> exit_status # "running"
  /\ pc # "exited" => ENABLED Next

-----------------------------------------------------------------------------
(* C21 *)

\* sysroot.readonly=true and the physical root was not writable when sampled
ReadonlyButNotWritable == sysroot_readonly /\ ~ sysroot_currently_writable

NotWritableMsg == "sysroot.readonly=true requires root_arg to be writable at this point"

\* call i is the successful mount of the base root on the staging mountpoint
IsBaseRootMounted(i) == ops[i].ok /\ (IsCfsMount(ops[i]) \/ IsBaseBind(ops[i]))

\* the statements of main() that follow the test of sysroot_currently_writable
AfterWritableTest ==
  { PcOrder[k] : k \in (PcRank("check_sysroot_writable") + 1)..(Len(PcOrder) - 1) }

\* what C21 requires of a state
ReadonlyNotWritableIsFatal ==
  ReadonlyButNotWritable =>
    /\ exit_status # "EXIT_SUCCESS"
    /\ pc \notin AfterWritableTest
    /\ run_booted = <<>>
    /\ root_path_holds = "physical"
    /\ \A i \in Calls :
         /\ ~ IsRecordWrite(ops[i])
         /\ ~ IsSwitchOp(ops[i])
         /\ ops[i].tgt \notin { "/sysroot.tmp/boot", "/sysroot.tmp/etc", "/sysroot.tmp/usr",
                                "/sysroot.tmp/var", "../../var" }
    /\ (Failed /\ fail_msg = NotWritableMsg) =>
         Len(ops) > 0 /\ IsBaseRootMounted(Len(ops))
    /\ (pc = "exited" /\ Len(ops) > 0 /\ IsBaseRootMounted(Len(ops))) =>
         exit_status = "EXIT_FAILURE" /\ fail_msg = NotWritableMsg

\* C21: with the physical root configured read-only but not writable when
\* sampled at startup, the run never exits with success; a run in which no
\* earlier step failed exits with failure right after the successful mount
\* of the base root (composefs or bind) on the staging mountpoint, before any
\* call on staging /boot, /etc, /usr, /var or the stateroot /var, with no
\* run-state record written and no switch call made.
C21_ReadonlyNotWritableExitsAfterBaseRoot == []ReadonlyNotWritableIsFatal

\* the exit on the writability test, taken with a composed image mounted
C21_Witness ==
  /\ ReadonlyButNotWritable
  /\ Failed /\ fail_msg = NotWritableMsg
  /\ CfsMounted

-----------------------------------------------------------------------------
(* C22 *)

\* the values the record `rec` holds under the key `k`
ValuesOf(rec, k) == { rec[m].val : m \in { n \in 1..Len(rec) : rec[n].key = k } }

\* the number of entries of `rec` under the key `k`
EntriesOf(rec, k) == Cardinality({ n \in 1..Len(rec) : rec[n].key = k })

SignatureValidated == \E i \in Calls : ops[i].call = "validate_signature" /\ ops[i].ok

\* what C22 requires of a state
RecordContents ==
  \A r \in 1..Len(run_booted) :
    LET rec == run_booted[r]
    IN /\ \A m \in 1..Len(rec) : rec[m].key \in { "composefs.signed", "composefs", "sysroot-ro" }
       /\ EntriesOf(rec, "sysroot-ro") = 1
       /\ ValuesOf(rec, "sysroot-ro") = { IF sysroot_readonly THEN <<"true">> ELSE <<"false">> }
       /\ EntriesOf(rec, "composefs") = (IF CfsMounted THEN 1 ELSE 0)
       /\ ValuesOf(rec, "composefs") \subseteq { <<"true">> }
       /\ EntriesOf(rec, "composefs.signed") <= 1
       /\ EntriesOf(rec, "composefs.signed") = 1 =>
            /\ composefs_mode = OSTREE_COMPOSEFS_MODE_SIGNED
            /\ SignatureValidated
            /\ EntriesOf(rec, "composefs") = 1
            /\ ValuesOf(rec, "composefs.signed") = { composefs_pubkey }
       /\ (composefs_mode = OSTREE_COMPOSEFS_MODE_MAYBE /\ ~ CfsMounted) =>
            EntriesOf(rec, "composefs") = 0 /\ EntriesOf(rec, "composefs.signed") = 0

\* C22: every run-state record written holds the sysroot-ro key once, with
\* the configured value; holds the composefs key exactly when lcfs_mount_image
\* succeeded, never with the value false; holds the composefs.signed key only
\* when the mode is signed, a signature validated and the composefs key is
\* held too, its value being the public key path; and under maybe with a
\* failed composefs mount holds neither the composefs nor the
\* composefs.signed key.
C22_RecordContents == []RecordContents

\* a record written with the composefs.signed key, and with it the composefs key
C22_Witness ==
  /\ Len(run_booted) = 1
  /\ EntriesOf(run_booted[1], "composefs.signed") = 1
  /\ EntriesOf(run_booted[1], "composefs") = 1

=============================================================================
